---- MODULE Spec2Model ----
(***************************************************************************)
(* State machine of the Monikhao worker service                            *)
(* (src/scripts/worker-service.cjs): the multi-session store, the agent    *)
(* tree of every session, the statistics with their carry-over bucket,     *)
(* the display-name pool, the lifecycle pruner, the configuration and the  *)
(* sockets of the dashboards; with the processes around it: the            *)
(* session-start hooks that spawn the worker under the spawn lock, and     *)
(* kmoni-ctl off.                                                          *)
(*                                                                         *)
(* JavaScript values are encoded as follows.  Times are integers >= 0      *)
(* (milliseconds); `undefined` is UNDEFINED and `null` is NULL, two        *)
(* negative integers no time can equal.  Agent ids `agent-<n>` are the     *)
(* integer n.  A tool-call id `tc-<Date.now()>-<suffix>` is the pair       *)
(* <<Date.now(), suffix>>.  The empty string stands for an absent string.  *)
(***************************************************************************)
EXTENDS Integers, Sequences, FiniteSets, TLC

VARIABLES
    sessions,        \* Map sessionId -> sessionState (worker-service.cjs:77)
    agentIdCounter,  \* worker-service.cjs:78
    usedNames,       \* worker-service.cjs:45
    carryOverStats,  \* worker-service.cjs:81
    config,          \* worker-service.cjs:26  (the keys the worker reads)
    clients,         \* worker-service.cjs:539  each socket of the Set -> its readyState
    wire,            \* the messages the last step sent: socket -> its messages, in order
    workers,         \* the worker processes spawned: "starting", "listening", "dead"
    pidFile,         \* ~/.monikhao/worker.pid: a position in workers, 0 if no file
    lockFile,        \* ~/.monikhao/spawn.lock
    hooks,           \* each session-start hook or plugin activation -> where it is
    now,             \* the clock, Date.now()
    ticks,           \* how many times the clock was advanced (bounds the run)
    workload         \* what the producers of this run send (fixed at start)

vars == <<sessions, agentIdCounter, usedNames, carryOverStats, config, clients, wire,
          workers, pidFile, lockFile, hooks, now, ticks, workload>>

UNDEFINED == -1
NULL == -2

(***************************************************************************)
(* Bounds of the model.                                                    *)
(***************************************************************************)
NumNames == 2        \* how many names of AGENT_NAMES the pool holds
MaxAgentIds == 3     \* agents created in a run
MaxToolCalls == 2    \* tool calls recorded in a run
MaxTimeline == 5     \* timeline entries of one session
MaxTurns == 1        \* notifications counted in a run
MaxTicks == 1        \* clock advances in a run
NowInit == 1000000   \* Date.now() when the worker starts

(***************************************************************************)
(* Program constants.                                                      *)
(***************************************************************************)
ENDED_RETENTION == 120000       \* 2 * 60 * 1000
GHOST_IDLE == 15000
STALE_TIMEOUT == 300000         \* config.staleTimeout || 5 * 60 * 1000
DEFAULT_MAX_TIMELINE == 1000    \* config.maxTimelineEvents || 1000
SWEEP_INTERVAL == 15000         \* setInterval(pruneStaleAndEndedSessions, 15000)
OPEN == 1                       \* ws.readyState === 1
CLOSING == 2                    \* the readyState of a socket that is closing
LOCK_STALE == 20000             \* Date.now() - lockData.ts < 20000
LOCK_WAIT == 20000              \* waitForHealth(20000)
SPAWN_WAIT == 15000             \* waitForHealth(15000)

ALL_AGENT_NAMES == <<"Nova", "Cipher", "Pulse", "Drift", "Flux", "Spark", "Haze", "Bolt">>
AGENT_NAMES == { ALL_AGENT_NAMES[i] : i \in 1..workload.numNames }

StatKeys == {"toolCalls", "filesAccessed", "estimatedTokens", "linesAdded",
             "linesRemoved", "turns", "errors"}

ZeroStats == [k \in StatKeys |-> 0]

(***************************************************************************)
(* Inbound records.  A text is a sequence of characters; a serialized      *)
(* payload is known by its length (the string itself, or JSON.stringify(obj)).            *)
(***************************************************************************)
NoText == <<>>

NoInput == [present |-> FALSE, file_path |-> "", content |-> NoText,
            old_string |-> NoText, new_string |-> NoText,
            description |-> "", subagent_type |-> "", length |-> 0]

\* {"file_path":"a.js","content":"x\ny"}
WriteInput == [NoInput EXCEPT !.present = TRUE, !.file_path = "a.js",
                              !.content = <<"x", "\n", "y">>, !.length = 37]
\* {"file_path":"a.js","old_string":"x\ny","new_string":"z"}
EditInput == [NoInput EXCEPT !.present = TRUE, !.file_path = "a.js",
                             !.old_string = <<"x", "\n", "y">>,
                             !.new_string = <<"z">>, !.length = 57]
\* {"description":"explore"}
TaskInput == [NoInput EXCEPT !.present = TRUE, !.description = "explore", !.length = 25]

\* the (tool_name, tool_input) pairs the pre events draw from
ToolRequests == { <<"Task", TaskInput>>, <<"Write", WriteInput>>, <<"Edit", EditInput>> }
Tools == { r[1] : r \in ToolRequests }

\* tool_response: the string "ok", and the object {"is_error":true}
OkResponse == [present |-> TRUE, isObject |-> FALSE, is_error |-> FALSE,
               error |-> FALSE, length |-> 2, failurePhrase |-> FALSE]
ErrorResponse == [present |-> TRUE, isObject |-> TRUE, is_error |-> TRUE,
                  error |-> FALSE, length |-> 17, failurePhrase |-> FALSE]
NoResponse == [present |-> FALSE, isObject |-> FALSE, is_error |-> FALSE,
               error |-> FALSE, length |-> 0, failurePhrase |-> FALSE]
ToolResponses == {OkResponse, ErrorResponse}

\* session_id of a record: an OpenCode id, and the absent id
EventSessionIds == {"oc-1", ""}
Phases == {"session_start", "session_end", "pre", "post", "notification", "heartbeat"}
RandomSuffixes == {"k3f9", "x0qz"}

\* the timestamp of a record sent at worker time t: the producer's clock, or none
EventTimestamps(t, mayOmit) == IF mayOmit THEN {UNDEFINED, t} ELSE {t}

(***************************************************************************)
(* Pure helpers.                                                           *)
(***************************************************************************)
\* JavaScript truthiness of a time value
Truthy(t) == t # UNDEFINED /\ t # NULL /\ t # 0

\* v || d
OrDefault(v, d) == IF Truthy(v) THEN v ELSE d

\* the configuration file the worker loads (line 27) holds neither key
NoConfig == [staleTimeout |-> UNDEFINED, maxTimelineEvents |-> UNDEFINED]

\* worker-service.cjs:516  a key that the body lacks is UNDEFINED in source
deepMerge(target, source) ==
    [k \in DOMAIN target |-> IF source[k] # UNDEFINED THEN source[k] ELSE target[k]]

\* the routes of the worker (lines 503-534)
Routes == { <<"GET", "/">>, <<"GET", "/app.js">>, <<"GET", "/style.css">>,
            <<"GET", "/api/health">>, <<"GET", "/api/state">>, <<"GET", "/api/config">>,
            <<"POST", "/api/config">>, <<"POST", "/api/events">>,
            <<"POST", "/api/voice-command">>, <<"POST", "/api/admin/shutdown">> }

\* the status of the worker's answer: Express answers 404, with a body that
\* is no JSON, where it has no route
httpStatus(method, path) == IF <<method, path>> \in Routes THEN 200 ELSE 404

\* (now - t) > limit, where now - undefined is NaN and compares false
ElapsedOver(clock, t, limit) ==
    CASE t = UNDEFINED -> FALSE
      [] t = NULL -> clock > limit
      [] OTHER -> clock - t > limit

\* worker-service.cjs:346
countLines(str) ==
    IF str = NoText THEN 0
    ELSE Cardinality({i \in DOMAIN str : str[i] = "\n"}) + 1

\* worker-service.cjs:378  Math.ceil(str.length / 4)
estimateTokens(obj) ==
    IF ~obj.present THEN 0 ELSE (obj.length + 3) \div 4

\* worker-service.cjs:413
detectError(response) ==
    IF ~response.present THEN FALSE
    ELSE IF response.isObject /\ (response.is_error \/ response.error) THEN TRUE
    ELSE IF response.length > 2000 THEN FALSE
    ELSE response.failurePhrase

\* worker-service.cjs:230  session_id || 'unknown'
SidOf(event) == IF event.session_id = "" THEN "unknown" ELSE event.session_id

\* the session ids of the model that start with 'oc-' (line 72)
OpenCodeIds == {"oc-1"}

\* worker-service.cjs:69
detectSource(event) ==
    IF event.source # "" THEN event.source
    ELSE IF event.session_id \in OpenCodeIds THEN "opencode"
    ELSE "claudecode"

SessionKeys == { SidOf([session_id |-> i]) : i \in EventSessionIds }

\* worker-service.cjs:47  the names Math.random may select
pickAgentNamePool(used) ==
    LET available == AGENT_NAMES \ used
    IN  IF available # {} THEN available ELSE AGENT_NAMES

\* a Map is held as a function; the empty Map is the empty function
EmptyMap == <<>>
\* Map.set
MapSet(m, k, v) == [x \in (DOMAIN m) \cup {k} |-> IF x = k THEN v ELSE m[x]]
\* Map.delete
MapDelete(m, k) ==
    IF (DOMAIN m) \ {k} = {} THEN EmptyMap ELSE [x \in (DOMAIN m) \ {k} |-> m[x]]

\* worker-service.cjs:85
createSessionState(sessionId, timestamp, source) ==
    [ id |-> sessionId, startedAt |-> timestamp, status |-> "active",
      source |-> IF source = "" THEN "unknown" ELSE source,
      endedAt |-> UNDEFINED, agents |-> <<>>, timeline |-> <<>>,
      files |-> EmptyMap, stats |-> ZeroStats,
      pendingToolCalls |-> EmptyMap, lastActivity |-> timestamp ]

\* the state the handlers mutate, as one record
World == [sessions |-> sessions, agentIdCounter |-> agentIdCounter,
          usedNames |-> usedNames, carryOverStats |-> carryOverStats]

\* worker-service.cjs:101
getOrCreateSession(w, sid, timestamp, source) ==
    IF sid \in DOMAIN w.sessions
    THEN IF source # "" /\ w.sessions[sid].source = "unknown"
         THEN [w EXCEPT !.sessions[sid].source = source]
         ELSE w
    ELSE [w EXCEPT !.sessions = MapSet(@, sid, createSessionState(sid, timestamp, source))]

\* index of the agent of type main in the list, 0 if none (agents.find)
MainIndex(agents) ==
    IF \E i \in DOMAIN agents : agents[i].type = "main"
    THEN CHOOSE i \in DOMAIN agents :
            /\ agents[i].type = "main"
            /\ \A j \in DOMAIN agents : agents[j].type = "main" => i <= j
    ELSE 0

\* reactivateIfEnded that revives every completed agent of the session
reactivateEveryAgent(ss, timestamp) ==
    [IF ss.status = "ended"
     THEN [ss EXCEPT !.status = "active", !.endedAt = UNDEFINED,
                     !.agents = [i \in DOMAIN ss.agents |->
                                    IF ss.agents[i].status = "completed"
                                    THEN [ss.agents[i] EXCEPT !.status = "active",
                                                              !.completedAt = NULL]
                                    ELSE ss.agents[i]]]
     ELSE ss
        EXCEPT !.lastActivity = timestamp]

\* reactivateIfEnded without the test of line 113
reactivateAlways(ss, timestamp) ==
    [ss EXCEPT !.status = "active", !.endedAt = UNDEFINED,
               !.agents = IF MainIndex(ss.agents) # 0
                             /\ ss.agents[MainIndex(ss.agents)].status = "completed"
                          THEN [@ EXCEPT ![MainIndex(ss.agents)].status = "active",
                                         ![MainIndex(ss.agents)].completedAt = NULL]
                          ELSE @,
               !.lastActivity = timestamp]

\* reactivateIfEnded without the delete of line 115: the end timestamp stays
reactivateKeepingEndedAt(ss, timestamp) ==
    LET m == MainIndex(ss.agents)
        revived ==
            IF ss.status = "ended"
            THEN [ss EXCEPT !.status = "active",
                            !.agents = IF m # 0 /\ ss.agents[m].status = "completed"
                                       THEN [@ EXCEPT ![m].status = "active",
                                                      ![m].completedAt = NULL]
                                       ELSE @]
            ELSE ss
    IN  [revived EXCEPT !.lastActivity = timestamp]

\* worker-service.cjs:112
\* reactivation of the session that leaves its main agent completed
reactivateSessionOnly(ss, timestamp) ==
    IF ss.status = "ended"
    THEN [ss EXCEPT !.status = "active", !.endedAt = UNDEFINED,
                    !.lastActivity = timestamp]
    ELSE [ss EXCEPT !.lastActivity = timestamp]

reactivateIfEnded(ss, timestamp) ==
    LET m == MainIndex(ss.agents)
        revived ==
            IF ss.status = "ended"
            THEN [ss EXCEPT !.status = "active", !.endedAt = UNDEFINED,
                            !.agents = IF m # 0 /\ ss.agents[m].status = "completed"
                                       THEN [@ EXCEPT ![m].status = "active",
                                                      ![m].completedAt = NULL]
                                       ELSE @]
            ELSE ss
    IN  [revived EXCEPT !.lastActivity = timestamp]

\* getOrCreateMainAgent without the lookup of line 172: a main agent per call
createMainAgentAnew(w, sid, name) ==
    LET main == [ id |-> w.agentIdCounter, name |-> name, type |-> "main",
                  subagentType |-> "", parentId |-> NULL, status |-> "active",
                  completedAt |-> NULL, toolCalls |-> <<>>, toolCallCount |-> 0 ]
    IN  [w EXCEPT !.sessions[sid].agents = Append(@, main),
                  !.agentIdCounter = @ + 1,
                  !.usedNames = @ \cup {name}]

\* worker-service.cjs:171  (name: the name pickAgentName returns)
getOrCreateMainAgent(w, sid, name) ==
    IF MainIndex(w.sessions[sid].agents) # 0 THEN w
    ELSE LET main == [ id |-> w.agentIdCounter, name |-> name, type |-> "main",
                       subagentType |-> "", parentId |-> NULL, status |-> "active",
                       completedAt |-> NULL, toolCalls |-> <<>>, toolCallCount |-> 0 ]
         IN  [w EXCEPT !.sessions[sid].agents = Append(@, main),
                       !.agentIdCounter = @ + 1,
                       !.usedNames = @ \cup {name}]

\* spawnSubagent that reads agentIdCounter without incrementing it (line 200)
spawnSubagentSameId(w, sid, parentId, taskInput) ==
    LET subType == IF taskInput.subagent_type # "" THEN taskInput.subagent_type
                   ELSE "general-purpose"
        desc == IF taskInput.description # "" THEN taskInput.description ELSE "Subagent"
        agent == [ id |-> w.agentIdCounter, name |-> desc, type |-> "subagent",
                   subagentType |-> subType, parentId |-> parentId, status |-> "active",
                   completedAt |-> NULL, toolCalls |-> <<>>, toolCallCount |-> 0 ]
    IN  [w EXCEPT !.sessions[sid].agents = Append(@, agent)]

\* spawnSubagent that drops its parentId argument
spawnDetachedSubagent(w, sid, parentId, taskInput) ==
    LET subType == IF taskInput.subagent_type # "" THEN taskInput.subagent_type
                   ELSE "general-purpose"
        desc == IF taskInput.description # "" THEN taskInput.description ELSE "Subagent"
        agent == [ id |-> w.agentIdCounter, name |-> desc, type |-> "subagent",
                   subagentType |-> subType, parentId |-> NULL, status |-> "active",
                   completedAt |-> NULL, toolCalls |-> <<>>, toolCallCount |-> 0 ]
    IN  [w EXCEPT !.sessions[sid].agents = Append(@, agent),
                  !.agentIdCounter = @ + 1]

\* worker-service.cjs:196
spawnSubagent(w, sid, parentId, taskInput) ==
    LET subType == IF taskInput.subagent_type # "" THEN taskInput.subagent_type
                   ELSE "general-purpose"
        desc == IF taskInput.description # "" THEN taskInput.description ELSE "Subagent"
        agent == [ id |-> w.agentIdCounter, name |-> desc, type |-> "subagent",
                   subagentType |-> subType, parentId |-> parentId, status |-> "active",
                   completedAt |-> NULL, toolCalls |-> <<>>, toolCallCount |-> 0 ]
    IN  [w EXCEPT !.sessions[sid].agents = Append(@, agent),
                  !.agentIdCounter = @ + 1]

\* findActiveAgent scanning the list from its head
findFirstActiveAgent(ss) ==
    IF \E i \in DOMAIN ss.agents : ss.agents[i].status = "active"
    THEN CHOOSE i \in DOMAIN ss.agents :
            /\ ss.agents[i].status = "active"
            /\ \A j \in DOMAIN ss.agents : ss.agents[j].status = "active" => i <= j
    ELSE IF Len(ss.agents) > 0 THEN 1 ELSE 0

\* worker-service.cjs:220  (the index of the agent returned, 0 for null)
findActiveAgent(ss) ==
    IF \E i \in DOMAIN ss.agents : ss.agents[i].status = "active"
    THEN CHOOSE i \in DOMAIN ss.agents :
            /\ ss.agents[i].status = "active"
            /\ \A j \in DOMAIN ss.agents : ss.agents[j].status = "active" => j <= i
    ELSE IF Len(ss.agents) > 0 THEN 1 ELSE 0

\* worker-service.cjs:371
addTimelineEvent(ss, timestamp, type, agentId, tool) ==
    LET pushed == Append(ss.timeline, [timestamp |-> timestamp, type |-> type,
                                       agentId |-> agentId, tool |-> tool])
        max == OrDefault(config.maxTimelineEvents, DEFAULT_MAX_TIMELINE)
    IN  [ss EXCEPT !.timeline = IF Len(pushed) > max
                                THEN SubSeq(pushed, Len(pushed) - max + 1, Len(pushed))
                                ELSE pushed]

\* trackFileAccess that counts every access in filesAccessed (line 367
\* outside the else)
trackFileAccessCountingAll(ss, toolName, toolInput, timestamp) ==
    LET filePath == IF toolName \in {"Read", "Edit", "Write"} THEN toolInput.file_path
                    ELSE ""
        oldLines == countLines(toolInput.old_string)
        newLines == countLines(toolInput.new_string)
        s1 == IF toolName = "Write" /\ toolInput.content # NoText
              THEN [ss EXCEPT !.stats.linesAdded = @ + countLines(toolInput.content)]
              ELSE IF toolName = "Edit" /\ toolInput.present
              THEN IF newLines > oldLines
                   THEN [ss EXCEPT !.stats.linesAdded = @ + (newLines - oldLines)]
                   ELSE IF oldLines > newLines
                   THEN [ss EXCEPT !.stats.linesRemoved = @ + (oldLines - newLines)]
                   ELSE ss
              ELSE ss
    IN  IF filePath = "" THEN s1
        ELSE IF filePath \in DOMAIN s1.files
        THEN [s1 EXCEPT !.files[filePath].accessCount = @ + 1,
                        !.files[filePath].lastAccessed = timestamp,
                        !.stats.filesAccessed = @ + 1]
        ELSE [s1 EXCEPT !.files = MapSet(@, filePath,
                                    [accessCount |-> 1, lastAccessed |-> timestamp,
                                     tool |-> toolName]),
                        !.stats.filesAccessed = @ + 1]

\* trackFileAccess that adds the net line delta of an Edit to linesAdded
trackFileAccessNet(ss, toolName, toolInput, timestamp) ==
    LET filePath == IF toolName \in {"Read", "Edit", "Write"} THEN toolInput.file_path
                    ELSE ""
        s1 == IF toolName = "Write" /\ toolInput.content # NoText
              THEN [ss EXCEPT !.stats.linesAdded = @ + countLines(toolInput.content)]
              ELSE IF toolName = "Edit" /\ toolInput.present
              THEN [ss EXCEPT !.stats.linesAdded =
                        @ + (countLines(toolInput.new_string) - countLines(toolInput.old_string))]
              ELSE ss
    IN  IF filePath = "" THEN s1
        ELSE IF filePath \in DOMAIN s1.files
        THEN [s1 EXCEPT !.files[filePath].accessCount = @ + 1,
                        !.files[filePath].lastAccessed = timestamp]
        ELSE [s1 EXCEPT !.files = MapSet(@, filePath,
                                    [accessCount |-> 1, lastAccessed |-> timestamp,
                                     tool |-> toolName]),
                        !.stats.filesAccessed = @ + 1]

\* worker-service.cjs:348
trackFileAccess(ss, toolName, toolInput, timestamp) ==
    LET filePath == IF toolName \in {"Read", "Edit", "Write"} THEN toolInput.file_path
                    ELSE ""
        oldLines == countLines(toolInput.old_string)
        newLines == countLines(toolInput.new_string)
        s1 == IF toolName = "Write" /\ toolInput.content # NoText
              THEN [ss EXCEPT !.stats.linesAdded = @ + countLines(toolInput.content)]
              ELSE IF toolName = "Edit" /\ toolInput.present
              THEN IF newLines > oldLines
                   THEN [ss EXCEPT !.stats.linesAdded = @ + (newLines - oldLines)]
                   ELSE IF oldLines > newLines
                   THEN [ss EXCEPT !.stats.linesRemoved = @ + (oldLines - newLines)]
                   ELSE ss
              ELSE ss
    IN  IF filePath = "" THEN s1
        ELSE IF filePath \in DOMAIN s1.files
        THEN [s1 EXCEPT !.files[filePath].accessCount = @ + 1,
                        !.files[filePath].lastAccessed = timestamp]
        ELSE [s1 EXCEPT !.files = MapSet(@, filePath,
                                    [accessCount |-> 1, lastAccessed |-> timestamp,
                                     tool |-> toolName]),
                        !.stats.filesAccessed = @ + 1]

\* a fold that leaves the errors out
foldStatsWithoutErrors(carry, stats) ==
    [k \in StatKeys |-> IF k = "errors" THEN carry[k] ELSE carry[k] + stats[k]]

\* the fold of a session's counters into the carry-over (worker-service.cjs:135-141, 239-245)
foldStats(carry, stats) == [k \in StatKeys |-> carry[k] + stats[k]]

\* every active agent of the list becomes completed at `timestamp` (lines 159-161, 257-259)
\* completion of the main agents only
completeMainAgents(agents, timestamp) ==
    [i \in DOMAIN agents |->
        IF agents[i].status = "active" /\ agents[i].type = "main"
        THEN [agents[i] EXCEPT !.status = "completed", !.completedAt = timestamp]
        ELSE agents[i]]

completeActiveAgents(agents, timestamp) ==
    [i \in DOMAIN agents |->
        IF agents[i].status = "active"
        THEN [agents[i] EXCEPT !.status = "completed", !.completedAt = timestamp]
        ELSE agents[i]]

\* lines 308-311: the first agent holding a call with this id, and the first such
\* call of that agent, as <<agent index, call index>>; <<0, 0>> when none
findToolCall(agents, pendingId) ==
    LET holds(a) == \E c \in DOMAIN agents[a].toolCalls : agents[a].toolCalls[c].id = pendingId
    IN  IF \E a \in DOMAIN agents : holds(a)
        THEN LET a == CHOOSE x \in DOMAIN agents :
                          holds(x) /\ \A y \in DOMAIN agents : holds(y) => x <= y
                 calls == agents[a].toolCalls
                 c == CHOOSE x \in DOMAIN calls :
                          /\ calls[x].id = pendingId
                          /\ \A y \in DOMAIN calls : calls[y].id = pendingId => x <= y
             IN  <<a, c>>
        ELSE <<0, 0>>

\* line 323: the last agent of the list that is an active subagent, 0 when none
lastActiveSubagent(agents) ==
    LET is(i) == agents[i].type = "subagent" /\ agents[i].status = "active"
    IN  IF \E i \in DOMAIN agents : is(i)
        THEN CHOOSE i \in DOMAIN agents : is(i) /\ \A j \in DOMAIN agents : is(j) => j <= i
        ELSE 0

\* lines 237-247: the reset of a session that is in the store
resetSession(w, sid) ==
    IF sid \in DOMAIN w.sessions
    THEN [w EXCEPT !.carryOverStats = foldStats(@, w.sessions[sid].stats),
                   !.sessions = MapDelete(@, sid)]
    ELSE w

\* session_start without the delete of line 246: the counters are folded, the
\* session stays
processSessionStartKeeping(w, event, name) ==
    getOrCreateMainAgent(
        getOrCreateSession(
            IF SidOf(event) \in DOMAIN w.sessions
            THEN [w EXCEPT !.carryOverStats = foldStats(@, w.sessions[SidOf(event)].stats)]
            ELSE w,
            SidOf(event), event.timestamp, detectSource(event)),
        SidOf(event), name)

\* worker-service.cjs:234-251
processSessionStart(w, event, name) ==
    getOrCreateMainAgent(
        getOrCreateSession(resetSession(w, SidOf(event)), SidOf(event), event.timestamp,
                           detectSource(event)),
        SidOf(event), name)

\* session_end with getOrCreateSession in the place of getSession (line 253)
processSessionEndCreating(w, event) ==
    [getOrCreateSession(w, SidOf(event), event.timestamp, detectSource(event))
        EXCEPT !.sessions[SidOf(event)] =
            [@ EXCEPT !.status = "ended",
                      !.endedAt = event.timestamp,
                      !.agents = completeActiveAgents(@, event.timestamp)]]

\* worker-service.cjs:252-262
\* session_end that ends every session of the store
processSessionEndOfAll(w, event) ==
    IF SidOf(event) \in DOMAIN w.sessions
    THEN [w EXCEPT !.sessions =
             [sid \in DOMAIN w.sessions |->
                 [w.sessions[sid] EXCEPT !.status = "ended",
                                         !.endedAt = event.timestamp,
                                         !.agents = completeActiveAgents(@, event.timestamp)]]]
    ELSE w

processSessionEnd(w, event) ==
    IF SidOf(event) \in DOMAIN w.sessions
    THEN [w EXCEPT !.sessions[SidOf(event)] =
             [@ EXCEPT !.status = "ended",
                       !.endedAt = event.timestamp,
                       !.agents = completeActiveAgents(@, event.timestamp)]]
    ELSE w

\* lines 264-265, 301-302, 331-332: the session of the record, created if absent,
\* reactivated if ended
openSession(w, sid, timestamp, source) ==
    [getOrCreateSession(w, sid, timestamp, source)
        EXCEPT !.sessions[sid] = reactivateIfEnded(@, timestamp)]

\* the spawn without the test of line 274: a subagent for every tool
spawnForAnyTool(w, sid, event) ==
    [spawnSubagent(w, sid, w.sessions[sid].agents[MainIndex(w.sessions[sid].agents)].id,
                   event.tool_input)
        EXCEPT !.sessions[sid] =
            addTimelineEvent(@, event.timestamp, "agent_spawn",
                             @.agents[Len(@.agents)].id, "")]

\* lines 274-277: a Task request spawns a subagent under the main agent
spawnForTask(w, sid, event) ==
    IF event.tool_name = "Task"
    THEN [spawnSubagent(w, sid, w.sessions[sid].agents[MainIndex(w.sessions[sid].agents)].id,
                        event.tool_input)
             EXCEPT !.sessions[sid] =
                 addTimelineEvent(@, event.timestamp, "agent_spawn",
                                  @.agents[Len(@.agents)].id, "")]
    ELSE w

\* lines 280-296: the tool call is recorded on agent a of the session
\* start of a tool call that leaves the agent's toolCallCount alone
startToolCallUncounted(ss, a, event, clock, suffix) ==
    addTimelineEvent(
        trackFileAccess(
            [ss EXCEPT !.agents[a].toolCalls =
                           Append(@, [ id |-> <<clock, suffix>>, tool |-> event.tool_name,
                                       startedAt |-> event.timestamp, completedAt |-> NULL,
                                       status |-> "executing" ]),
                       !.stats.toolCalls = @ + 1,
                       !.stats.estimatedTokens = @ + estimateTokens(event.tool_input),
                       !.pendingToolCalls = MapSet(@, event.tool_name, <<clock, suffix>>)],
            event.tool_name, event.tool_input, event.timestamp),
        event.timestamp, "tool_start", ss.agents[a].id, event.tool_name)

startToolCall(ss, a, event, clock, suffix) ==
    addTimelineEvent(
        trackFileAccess(
            [ss EXCEPT !.agents[a].toolCalls =
                           Append(@, [ id |-> <<clock, suffix>>, tool |-> event.tool_name,
                                       startedAt |-> event.timestamp, completedAt |-> NULL,
                                       status |-> "executing" ]),
                       !.agents[a].toolCallCount = @ + 1,
                       !.stats.toolCalls = @ + 1,
                       !.stats.estimatedTokens = @ + estimateTokens(event.tool_input),
                       !.pendingToolCalls = MapSet(@, event.tool_name, <<clock, suffix>>)],
            event.tool_name, event.tool_input, event.timestamp),
        event.timestamp, "tool_start", ss.agents[a].id, event.tool_name)

\* worker-service.cjs:263-299  (clock: Date.now(); suffix: the random part of the call id)
processPre(w, event, name, clock, suffix) ==
    [spawnForTask(getOrCreateMainAgent(openSession(w, SidOf(event), event.timestamp, detectSource(event)),
                                       SidOf(event), name),
                  SidOf(event), event)
        EXCEPT !.sessions[SidOf(event)] =
            IF findActiveAgent(@) = 0 THEN @
            ELSE startToolCall(@, findActiveAgent(@), event, clock, suffix)]

\* lines 305-311: the call the pending entry of the tool names, <<0, 0>> when none
findPending(ss, tool) ==
    IF tool \in DOMAIN ss.pendingToolCalls
    THEN findToolCall(ss.agents, ss.pendingToolCalls[tool])
    ELSE <<0, 0>>

\* line 312
clearPending(ss, tool) ==
    IF tool \in DOMAIN ss.pendingToolCalls
    THEN [ss EXCEPT !.pendingToolCalls = MapDelete(@, tool)]
    ELSE ss

\* the completion with the error count of line 319 outside the test of line 314
completeToolCallCountingAll(ss, at, timestamp, isError) ==
    IF at[1] # 0
    THEN [ss EXCEPT !.agents[at[1]].toolCalls[at[2]].completedAt = timestamp,
                    !.agents[at[1]].toolCalls[at[2]].status =
                           IF isError THEN "error" ELSE "completed",
                    !.stats.errors = IF isError THEN @ + 1 ELSE @]
    ELSE [ss EXCEPT !.stats.errors = IF isError THEN @ + 1 ELSE @]

\* lines 314-320: the call found at `at` (<<0, 0>>: none) is completed
completeToolCall(ss, at, timestamp, isError) ==
    IF at[1] # 0
    THEN [ss EXCEPT !.agents[at[1]].toolCalls[at[2]].completedAt = timestamp,
                    !.agents[at[1]].toolCalls[at[2]].status =
                           IF isError THEN "error" ELSE "completed",
                    !.stats.errors = IF isError THEN @ + 1 ELSE @]
    ELSE ss

\* the completion of line 323 without the reverse(): the first active subagent
completeFirstSubagent(ss, tool, timestamp) ==
    IF tool = "Task" /\ lastActiveSubagent(ss.agents) # 0
    THEN [ss EXCEPT !.agents[CHOOSE i \in DOMAIN ss.agents :
                                /\ ss.agents[i].type = "subagent"
                                /\ ss.agents[i].status = "active"
                                /\ \A j \in DOMAIN ss.agents :
                                      (ss.agents[j].type = "subagent"
                                          /\ ss.agents[j].status = "active") => i <= j] =
             [@ EXCEPT !.status = "completed", !.completedAt = timestamp]]
    ELSE ss

\* lines 322-325: the post of a Task completes the last active subagent
completeLastSubagent(ss, tool, timestamp) ==
    IF tool = "Task" /\ lastActiveSubagent(ss.agents) # 0
    THEN [ss EXCEPT !.agents[lastActiveSubagent(ss.agents)] =
             [@ EXCEPT !.status = "completed", !.completedAt = timestamp]]
    ELSE ss

\* lines 305-326: the post is recorded, agent a being the active agent
finishToolCall(ss, a, event) ==
    addTimelineEvent(
        completeLastSubagent(
            [completeToolCall(clearPending(ss, event.tool_name),
                              findPending(ss, event.tool_name),
                              event.timestamp, detectError(event.tool_response))
                EXCEPT !.stats.estimatedTokens = @ + estimateTokens(event.tool_response)],
            event.tool_name, event.timestamp),
        event.timestamp, "tool_end", ss.agents[a].id, event.tool_name)

\* worker-service.cjs:300-329
processPost(w, event) ==
    [openSession(w, SidOf(event), event.timestamp, detectSource(event))
        EXCEPT !.sessions[SidOf(event)] =
            IF findActiveAgent(@) = 0 THEN @
            ELSE finishToolCall(@, findActiveAgent(@), event)]

\* lines 334-339: the response is put on the timeline of the active agent
recordResponse(ss, timestamp) ==
    IF findActiveAgent(ss) = 0 THEN ss
    ELSE addTimelineEvent(ss, timestamp, "agent_response",
                          ss.agents[findActiveAgent(ss)].id, "")

\* worker-service.cjs:330-340
processNotification(w, event) ==
    [openSession(w, SidOf(event), event.timestamp, detectSource(event))
        EXCEPT !.sessions[SidOf(event)] =
            recordResponse([@ EXCEPT !.stats.turns = @ + 1], event.timestamp)]

\* processEvent with the session of the record opened before the switch
processEventOpening(w, event, name, clock, suffix) ==
    CASE event.phase = "session_start" -> processSessionStart(w, event, name)
      [] event.phase = "session_end" -> processSessionEnd(w, event)
      [] event.phase = "pre" -> processPre(w, event, name, clock, suffix)
      [] event.phase = "post" -> processPost(w, event)
      [] event.phase = "notification" -> processNotification(w, event)
      [] OTHER -> openSession(w, SidOf(event), event.timestamp, detectSource(event))

\* worker-service.cjs:228-344  (the switch on event.phase)
processEvent(w, event, name, clock, suffix) ==
    CASE event.phase = "session_start" -> processSessionStart(w, event, name)
      [] event.phase = "session_end" -> processSessionEnd(w, event)
      [] event.phase = "pre" -> processPre(w, event, name, clock, suffix)
      [] event.phase = "post" -> processPost(w, event)
      [] event.phase = "notification" -> processNotification(w, event)
      [] OTHER -> w

(***************************************************************************)
(* The lifecycle pruner, worker-service.cjs:127-167.                       *)
(***************************************************************************)
\* the ended rule without the retention window of line 129
endedExpiredAtOnce(s, clock) ==
    s.status = "ended" /\ Truthy(s.endedAt) /\ s.endedAt < clock

\* line 134: an ended session past the retention window
endedExpired(s, clock) ==
    s.status = "ended" /\ Truthy(s.endedAt) /\ s.endedAt < clock - ENDED_RETENTION

\* the ghost rule with the threshold of the stale rule
isGhostAfterStaleTimeout(s, clock) ==
    s.status = "active" /\ s.stats.toolCalls = 0
        /\ ElapsedOver(clock, s.lastActivity, STALE_TIMEOUT)

\* line 149: an empty session idle for 15 s
isGhost(s, clock) ==
    s.status = "active" /\ s.stats.toolCalls = 0 /\ ElapsedOver(clock, s.lastActivity, GHOST_IDLE)

\* line 156: an active session idle for STALE_TIMEOUT
isStale(s, clock) ==
    s.status = "active" /\ ElapsedOver(clock, s.lastActivity, STALE_TIMEOUT)

\* lines 143, 150: the names the deletion of session s frees
mainNames(s) == { s.agents[i].name : i \in { j \in DOMAIN s.agents : s.agents[j].type = "main" } }

RECURSIVE foldAll(_, _, _)
foldAll(carry, S, ids) ==
    IF ids = {} THEN carry
    ELSE LET id == CHOOSE x \in ids : TRUE
         IN  foldAll(foldStats(carry, S[id].stats), S, ids \ {id})

\* the auto-end without the loop of lines 159-161
endStaleSessionOnly(s, clock) ==
    [s EXCEPT !.status = "ended", !.endedAt = clock]

\* lines 157-161
endStale(s, clock) ==
    [s EXCEPT !.status = "ended", !.endedAt = clock,
              !.agents = completeActiveAgents(@, clock)]

pruneStaleAndEndedSessions(w, clock) ==
    LET S == w.sessions
        expired == { id \in DOMAIN S : endedExpired(S[id], clock) }
        ghosts == { id \in DOMAIN S : ~endedExpired(S[id], clock) /\ isGhost(S[id], clock) }
        deleted == expired \cup ghosts
        kept == (DOMAIN S) \ deleted
    IN  [w EXCEPT
            !.carryOverStats = foldAll(@, S, expired),
            !.usedNames = @ \ UNION { mainNames(S[id]) : id \in deleted },
            !.sessions = IF kept = {} THEN EmptyMap
                         ELSE [id \in kept |-> IF isStale(S[id], clock)
                                               THEN endStale(S[id], clock)
                                               ELSE S[id]]]

\* lines 130, 145, 152, 162: the flag `changed` at the end of the sweep
sweepChanged(w, clock) ==
    \E id \in DOMAIN w.sessions :
        \/ endedExpired(w.sessions[id], clock)
        \/ isGhost(w.sessions[id], clock)
        \/ isStale(w.sessions[id], clock)

\* a sweep that broadcasts where it sets the flag, once per session it changes
broadcastsPerChange(w, clock) ==
    Cardinality({ id \in DOMAIN w.sessions :
                    \/ endedExpired(w.sessions[id], clock)
                    \/ isGhost(w.sessions[id], clock)
                    \/ isStale(w.sessions[id], clock) })

\* line 166: the number of state_update broadcasts of the sweep
sweepBroadcasts(w, clock) ==
    IF sweepChanged(w, clock) THEN 1 ELSE 0

(***************************************************************************)
(* The snapshot's statistics, worker-service.cjs:436-497.                  *)
(***************************************************************************)
getPublicStats(w) == foldAll(w.carryOverStats, w.sessions, DOMAIN w.sessions)

(***************************************************************************)
(* The state machine.                                                      *)
(***************************************************************************)
\* a record as its producer builds it: the OpenCode plugin, whose session ids
\* start with 'oc-', sends source 'opencode' (part_004 makeEvent), the Claude
\* Code hooks send source 'claudecode' (part_003:184)
Event(phase, timestamp, session_id, tool_name, tool_input, tool_response) ==
    [ phase |-> phase, timestamp |-> timestamp, session_id |-> session_id,
      source |-> IF session_id \in OpenCodeIds THEN "opencode" ELSE "claudecode",
      tool_name |-> tool_name, tool_input |-> tool_input, tool_response |-> tool_response ]

\* by how much the clock may advance in one step
ClockSteps == {SWEEP_INTERVAL, ENDED_RETENTION + 1, STALE_TIMEOUT + 1}

\* The producers of a run and the length of the run: the session ids in use,
\* the phases, tool requests and responses sent, whether records may lack a
\* timestamp, by how much the clock advances, and how far the run goes; which
\* bodies are posted to /api/config, which sockets connect, for which sources
\* kmoni-ctl off is run, which session-start hooks find no worker running.
Quiet == [ configs |-> {}, sockets |-> {}, cli |-> {}, hooks |-> {}, numNames |-> NumNames ]
BusySession ==
    [ ids |-> {"oc-1"},
      phases |-> {"session_end", "pre", "post", "notification"},
      requests |-> {<<"Task", TaskInput>>, <<"Write", WriteInput>>},
      responses |-> ToolResponses,
      unstamped |-> FALSE, clock |-> {},
      maxAgentIds |-> MaxAgentIds, maxToolCalls |-> MaxToolCalls,
      maxTurns |-> MaxTurns, maxTimeline |-> MaxTimeline, maxTicks |-> 0 ] @@ Quiet
Restarts ==
    [ ids |-> {"oc-1"},
      phases |-> Phases,
      requests |-> {<<"Edit", EditInput>>}, responses |-> {ErrorResponse},
      unstamped |-> FALSE, clock |-> ClockSteps,
      maxAgentIds |-> MaxAgentIds - 1, maxToolCalls |-> MaxToolCalls - 1,
      maxTurns |-> MaxTurns, maxTimeline |-> MaxTimeline - 3, maxTicks |-> MaxTicks ] @@ Quiet
TwoSessions ==
    [ ids |-> EventSessionIds,
      phases |-> {"session_start", "session_end", "pre", "notification"},
      requests |-> {<<"Task", TaskInput>>}, responses |-> {OkResponse},
      unstamped |-> FALSE, clock |-> {STALE_TIMEOUT + 1},
      maxAgentIds |-> MaxAgentIds, maxToolCalls |-> MaxToolCalls - 1,
      maxTurns |-> MaxTurns, maxTimeline |-> MaxTimeline - 3, maxTicks |-> MaxTicks ] @@ Quiet
BareRecords ==
    [ ids |-> {""},
      phases |-> Phases \ {"session_start"},
      requests |-> {<<"Write", WriteInput>>}, responses |-> {OkResponse},
      unstamped |-> TRUE, clock |-> {STALE_TIMEOUT + 1},
      maxAgentIds |-> MaxAgentIds - 2, maxToolCalls |-> MaxToolCalls - 1,
      maxTurns |-> MaxTurns, maxTimeline |-> MaxTimeline - 3, maxTicks |-> MaxTicks ] @@ Quiet
\* the configuration is updated while a session works
Reconfigured ==
    [ configs |-> { [staleTimeout |-> 60000, maxTimelineEvents |-> UNDEFINED],
                    [staleTimeout |-> UNDEFINED, maxTimelineEvents |-> 1] },
      ids |-> {"oc-1"},
      phases |-> {"session_end", "pre", "notification"},
      requests |-> {<<"Write", WriteInput>>}, responses |-> {OkResponse},
      unstamped |-> FALSE, clock |-> {ENDED_RETENTION + 1},
      maxAgentIds |-> MaxAgentIds - 2, maxToolCalls |-> MaxToolCalls,
      maxTurns |-> MaxTurns, maxTimeline |-> MaxTimeline - 2, maxTicks |-> MaxTicks ] @@ Quiet
\* dashboards connect and disconnect while a session works and is configured
Consumers ==
    [ sockets |-> {"ws-1", "ws-2"},
      configs |-> { [staleTimeout |-> 60000, maxTimelineEvents |-> UNDEFINED] },
      ids |-> {"oc-1"},
      phases |-> Phases,
      requests |-> {<<"Write", WriteInput>>}, responses |-> {OkResponse},
      unstamped |-> FALSE, clock |-> {SWEEP_INTERVAL + 1},
      maxAgentIds |-> MaxAgentIds - 2, maxToolCalls |-> MaxToolCalls - 1,
      maxTurns |-> MaxTurns, maxTimeline |-> MaxTimeline - 3, maxTicks |-> MaxTicks ] @@ Quiet
\* two platforms start and restart sessions, and are switched off
Platforms ==
    [ cli |-> {"opencode", "claudecode"},
      numNames |-> NumNames + 1,
      ids |-> EventSessionIds,
      phases |-> {"session_start"},
      requests |-> {<<"Write", WriteInput>>}, responses |-> {OkResponse},
      unstamped |-> FALSE, clock |-> {},
      maxAgentIds |-> NumNames + 2, maxToolCalls |-> MaxToolCalls - 1,
      maxTurns |-> MaxTurns, maxTimeline |-> MaxTimeline - 3, maxTicks |-> 0 ] @@ Quiet
\* a plugin activation and a session-start hook find no worker running
ColdStart ==
    [ hooks |-> EventSessionIds,
      ids |-> EventSessionIds,
      phases |-> {},
      requests |-> {<<"Write", WriteInput>>}, responses |-> {OkResponse},
      unstamped |-> FALSE, clock |-> {SWEEP_INTERVAL},
      maxAgentIds |-> MaxAgentIds - 1, maxToolCalls |-> MaxToolCalls - 1,
      maxTurns |-> MaxTurns, maxTimeline |-> MaxTimeline - 3, maxTicks |-> MaxTicks + 1 ] @@ Quiet
Workloads == {BusySession, Restarts, TwoSessions, BareRecords,
              Reconfigured, Consumers, Platforms, ColdStart}

\* the run stays within the bounds of its workload
WithinBounds(w) ==
    /\ w.agentIdCounter <= workload.maxAgentIds
    /\ getPublicStats(w).toolCalls <= workload.maxToolCalls
    /\ getPublicStats(w).turns <= workload.maxTurns
    /\ \A id \in DOMAIN w.sessions : Len(w.sessions[id].timeline) <= workload.maxTimeline

\* the memory of a worker process that has just been loaded
Fresh == [sessions |-> EmptyMap, agentIdCounter |-> 0,
          usedNames |-> {}, carryOverStats |-> ZeroStats]

\* no spawn.lock in the data directory
NoLock == [exists |-> FALSE, ts |-> 0, pid |-> ""]

\* a worker answers on the port (GET /api/health, line 506)
running == \E i \in DOMAIN workers : workers[i] = "listening"

\* part_002:216  cmdOff: the request the command ends with.  With a known
\* source the sources of the sessions are asked for (line 231); the other
\* platform is spared only if the reply parses and names it (lines 232-241),
\* every other case falls through to the shutdown (line 249)
cmdOff(mySource) ==
    IF ~running THEN "none"
    ELSE IF /\ mySource # ""
            /\ httpStatus("GET", "/api/sessions/sources") = 200
            /\ \E sid \in DOMAIN sessions :
                  sessions[sid].source \notin {mySource, "unknown"}
    THEN "/api/admin/disconnect"
    ELSE "/api/admin/shutdown"

Init ==
    /\ workload \in Workloads
    /\ sessions = Fresh.sessions
    /\ agentIdCounter = Fresh.agentIdCounter
    /\ usedNames = Fresh.usedNames
    /\ carryOverStats = Fresh.carryOverStats
    /\ config = NoConfig
    /\ clients = EmptyMap
    /\ wire = EmptyMap
    /\ workers = IF workload.hooks = {} THEN <<"listening">> ELSE <<>>
    /\ pidFile = Len(workers)
    /\ lockFile = NoLock
    /\ hooks = [h \in workload.hooks |-> [pc |-> "start", t0 |-> 0]]
    /\ now = NowInit
    /\ ticks = 0

\* the records the producers of the run may post at the current time
EventsOf(phase) ==
    { Event(phase, ts, id, req[1], req[2], resp) :
        ts \in EventTimestamps(now, workload.unstamped), id \in workload.ids,
        req \in CASE phase = "pre" -> workload.requests
                  [] phase = "post" -> { <<r[1], NoInput>> : r \in workload.requests }
                  [] OTHER -> {<<"", NoInput>>},
        resp \in IF phase = "post" THEN workload.responses ELSE {NoResponse} }

\* what Math.random may contribute to the handling of a record: the name of a
\* main agent (line 48), the suffix of a tool call id (line 282)
NamesFor(phase) ==
    IF phase \in {"session_start", "pre"} THEN pickAgentNamePool(usedNames) ELSE {""}
SuffixesFor(phase) == IF phase = "pre" THEN RandomSuffixes ELSE {""}

\* broadcast without the test of readyState (line 550)
broadcastToAll(cl, msgs) == [ws \in DOMAIN cl |-> msgs]

\* worker-service.cjs:548  the messages msgs are broadcast one after the
\* other: each goes to every open socket
broadcast(cl, msgs) == [ws \in { c \in DOMAIN cl : cl[c] = OPEN } |-> msgs]

\* worker-service.cjs:436  the snapshot: the statistics and the sessions
getPublicState(w) == [stats |-> getPublicStats(w), sessions |-> w.sessions]

\* processEvent that broadcasts only if the record changed the state
processEventMessagesOnChange(w, event, name, clock, suffix) ==
    IF processEvent(w, event, name, clock, suffix) = w THEN <<>>
    ELSE << [type |-> "event", event |-> event,
             state |-> getPublicState(processEvent(w, event, name, clock, suffix))] >>

\* worker-service.cjs:343  the messages processEvent broadcasts: one, after
\* the switch, with the record and the snapshot
processEventMessages(w, event, name, clock, suffix) ==
    << [type |-> "event", event |-> event,
        state |-> getPublicState(processEvent(w, event, name, clock, suffix))] >>

\* what is outside the worker's memory
outside == <<config, workers, pidFile, lockFile, hooks, now, ticks, workload>>

\* POST /api/events (line 526) on a running worker: processEvent on the
\* record, which ends with the broadcast of line 343
Deliver(event, name, suffix) ==
    /\ running
    /\ \E w \in {processEvent(World, event, name, now, suffix)} :
          /\ WithinBounds(w)
          /\ sessions' = w.sessions
          /\ agentIdCounter' = w.agentIdCounter
          /\ usedNames' = w.usedNames
          /\ carryOverStats' = w.carryOverStats
    /\ wire' = broadcast(clients, processEventMessages(World, event, name, now, suffix))
    /\ UNCHANGED clients

\* a producer of the run posts a record
Ingest(event, name, suffix) ==
    /\ event.phase \in workload.phases
    /\ Deliver(event, name, suffix)
    /\ UNCHANGED outside

\* the step is the ingestion of record e
Ingests(e) ==
    \E name \in NamesFor(e.phase), suffix \in SuffixesFor(e.phase) : Ingest(e, name, suffix)

SessionStart == \E e \in EventsOf("session_start") : Ingests(e)

SessionEnd == \E e \in EventsOf("session_end") : Ingests(e)

Pre == \E e \in EventsOf("pre") : Ingests(e)

Post == \E e \in EventsOf("post") : Ingests(e)

Notification == \E e \in EventsOf("notification") : Ingests(e)

UnknownPhase == \E e \in EventsOf("heartbeat") : Ingests(e)

\* the timer of line 168 fires
Prune ==
    /\ running
    /\ \E w \in {pruneStaleAndEndedSessions(World, now)} :
          /\ sessions' = w.sessions
          /\ usedNames' = w.usedNames
          /\ carryOverStats' = w.carryOverStats
          /\ wire' = IF sweepBroadcasts(World, now) > 0
                     THEN broadcast(clients, << [type |-> "state_update",
                                                 state |-> getPublicState(w)] >>)
                     ELSE EmptyMap
    /\ UNCHANGED <<agentIdCounter, clients>>
    /\ UNCHANGED outside

\* POST /api/config (line 509)
PostConfig ==
    \E body \in workload.configs :
        /\ running
        /\ config' = deepMerge(config, body)
        /\ wire' = broadcast(clients, << [type |-> "config_update",
                                          config |-> deepMerge(config, body)] >>)
        /\ UNCHANGED <<sessions, agentIdCounter, usedNames, carryOverStats, clients>>
        /\ UNCHANGED <<workers, pidFile, lockFile, hooks, now, ticks, workload>>

\* wss.on('connection') (line 541): the socket joins the Set and is sent the
\* snapshot
Connect ==
    \E ws \in workload.sockets \ DOMAIN clients :
        /\ running
        /\ clients' = MapSet(clients, ws, OPEN)
        /\ wire' = [c \in {ws} |-> << [type |-> "init", state |-> getPublicState(World)] >>]
        /\ UNCHANGED <<sessions, agentIdCounter, usedNames, carryOverStats>>
        /\ UNCHANGED outside

\* a socket starts its closing handshake: it is no longer open, and is in the
\* Set until its 'close' is emitted
SocketClosing ==
    \E ws \in DOMAIN clients :
        /\ clients[ws] = OPEN
        /\ clients' = [clients EXCEPT ![ws] = CLOSING]
        /\ wire' = EmptyMap
        /\ UNCHANGED <<sessions, agentIdCounter, usedNames, carryOverStats>>
        /\ UNCHANGED outside

\* ws.on('close') and ws.on('error') (lines 544-545)
SocketClose ==
    \E ws \in DOMAIN clients :
        /\ clients' = MapDelete(clients, ws)
        /\ wire' = EmptyMap
        /\ UNCHANGED <<sessions, agentIdCounter, usedNames, carryOverStats>>
        /\ UNCHANGED outside

\* the process at position i of ws exits or is killed: the others stay
without(ws, i) == [ws EXCEPT ![i] = "dead"]

\* the memory of the worker after the processes of ws became those of ws2
Survives(ws, ws2) ==
    \A i \in DOMAIN ws : ws[i] = "listening" => ws2[i] = "listening"

\* the worker's memory and sockets are those of the listening process
MemoryAfter(ws2) ==
    IF Survives(workers, ws2)
    THEN UNCHANGED <<sessions, agentIdCounter, usedNames, carryOverStats, clients>>
    ELSE /\ sessions' = Fresh.sessions
         /\ agentIdCounter' = Fresh.agentIdCounter
         /\ usedNames' = Fresh.usedNames
         /\ carryOverStats' = Fresh.carryOverStats
         /\ clients' = EmptyMap

\* kmoni-ctl off --source=mySource (cmdOff), against the routes of the worker
CmdOffFor(mySource) ==
    \E ws2 \in { IF cmdOff(mySource) = "/api/admin/shutdown"
                 THEN [i \in DOMAIN workers |->
                          IF workers[i] = "listening" THEN "dead" ELSE workers[i]]
                 ELSE workers } :
        /\ workers' = ws2
        /\ MemoryAfter(ws2)
        /\ wire' = EmptyMap
        /\ UNCHANGED <<config, pidFile, lockFile, hooks, now, ticks, workload>>

CmdOff == \E mySource \in workload.cli : CmdOffFor(mySource)

\* time passes
Tick ==
    \E d \in workload.clock :
        /\ ticks < workload.maxTicks
        /\ now' = now + d
        /\ ticks' = ticks + 1
        /\ wire' = EmptyMap
        /\ UNCHANGED <<sessions, agentIdCounter, usedNames, carryOverStats, clients>>
        /\ UNCHANGED <<config, workers, pidFile, lockFile, hooks, workload>>

(***************************************************************************)
(* The start of the worker by a session-start hook (part_003, main) or a   *)
(* plugin activation (part_004, ensureWorker): one process per element of  *)
(* hooks, a step per file-system call or await.                            *)
(***************************************************************************)
\* the process h moves to position pc
goto(h, pc) == [hooks EXCEPT ![h].pc = pc]
\* the process h starts to wait at position pc
wait(h, pc) == [hooks EXCEPT ![h] = [pc |-> pc, t0 |-> now]]

workerKept == <<sessions, agentIdCounter, usedNames, carryOverStats, clients>>

\* part_003:64  the first isHealthy of main
HookStart ==
    \E h \in DOMAIN hooks :
        /\ hooks[h].pc = "start"
        /\ hooks' = goto(h, IF running THEN "post" ELSE "exists")
        /\ wire' = EmptyMap
        /\ UNCHANGED workerKept
        /\ UNCHANGED <<config, workers, pidFile, lockFile, now, ticks, workload>>

\* part_003:28  acquireLock: existsSync(LOCK_FILE)
LockExists ==
    \E h \in DOMAIN hooks :
        /\ hooks[h].pc = "exists"
        /\ hooks' = goto(h, IF lockFile.exists THEN "read" ELSE "write")
        /\ wire' = EmptyMap
        /\ UNCHANGED workerKept
        /\ UNCHANGED <<config, workers, pidFile, lockFile, now, ticks, workload>>

\* part_003:29-34  acquireLock: the lock is read; it is respected while it is
\* younger than LOCK_STALE; a lock that is gone makes readFileSync throw, and
\* acquireLock return false (line 40); then main waits (line 74)
LockRead ==
    \E h \in DOMAIN hooks :
        /\ hooks[h].pc = "read"
        /\ hooks' = IF lockFile.exists /\ ~(now - lockFile.ts < LOCK_STALE)
                    THEN goto(h, "write")
                    ELSE wait(h, "waiting")
        /\ wire' = EmptyMap
        /\ UNCHANGED workerKept
        /\ UNCHANGED <<config, workers, pidFile, lockFile, now, ticks, workload>>

\* part_003:36-37  acquireLock: writeFileSync(LOCK_FILE), return true
LockWrite ==
    \E h \in DOMAIN hooks :
        /\ hooks[h].pc = "write"
        /\ lockFile' = [exists |-> TRUE, ts |-> now, pid |-> h]
        /\ hooks' = goto(h, "recheck")
        /\ wire' = EmptyMap
        /\ UNCHANGED workerKept
        /\ UNCHANGED <<config, workers, pidFile, now, ticks, workload>>

\* part_003:82  the isHealthy after the lock was acquired
Recheck ==
    \E h \in DOMAIN hooks :
        /\ hooks[h].pc = "recheck"
        /\ hooks' = goto(h, IF running THEN "post_locked" ELSE "kill")
        /\ wire' = EmptyMap
        /\ UNCHANGED workerKept
        /\ UNCHANGED <<config, workers, pidFile, lockFile, now, ticks, workload>>

\* part_003:88, 147-159  killStaleWorker: the process of the pid file is
\* killed if it is alive
KillStaleWorker ==
    \E h \in DOMAIN hooks :
        \E ws2 \in { IF pidFile # 0 THEN without(workers, pidFile) ELSE workers } :
            /\ hooks[h].pc = "kill"
            /\ workers' = ws2
            /\ MemoryAfter(ws2)
            /\ hooks' = goto(h, "spawn")
            /\ wire' = EmptyMap
            /\ UNCHANGED <<config, pidFile, lockFile, now, ticks, workload>>

\* part_003:104-115  spawn of the worker script, writePidFile
SpawnWorker ==
    \E h \in DOMAIN hooks :
        /\ hooks[h].pc = "spawn"
        /\ workers' = Append(workers, "starting")
        /\ pidFile' = Len(workers) + 1
        /\ hooks' = wait(h, "await")
        /\ wire' = EmptyMap
        /\ UNCHANGED workerKept
        /\ UNCHANGED <<config, lockFile, now, ticks, workload>>

\* worker-service.cjs:553  server.listen of a spawned worker: it answers on
\* the port, or exits because a worker listens there already
WorkerListens ==
    \E i \in DOMAIN workers :
        /\ workers[i] = "starting"
        /\ workers' = [workers EXCEPT ![i] = IF running THEN "dead" ELSE "listening"]
        /\ wire' = EmptyMap
        /\ UNCHANGED workerKept
        /\ UNCHANGED <<config, pidFile, lockFile, hooks, now, ticks, workload>>

\* part_003:124  waitForHealth(15000) of the process that spawned
AwaitHealth ==
    \E h \in DOMAIN hooks :
        /\ hooks[h].pc = "await"
        /\ running \/ ~(now - hooks[h].t0 < SPAWN_WAIT)
        /\ hooks' = goto(h, IF running THEN "post_locked" ELSE "release")
        /\ wire' = EmptyMap
        /\ UNCHANGED workerKept
        /\ UNCHANGED <<config, workers, pidFile, lockFile, now, ticks, workload>>

\* part_003:74  waitForHealth(20000) of a process that found the lock held
WaitForOther ==
    \E h \in DOMAIN hooks :
        /\ hooks[h].pc = "waiting"
        /\ running \/ ~(now - hooks[h].t0 < LOCK_WAIT)
        /\ hooks' = goto(h, IF running THEN "post" ELSE "done")
        /\ wire' = EmptyMap
        /\ UNCHANGED workerKept
        /\ UNCHANGED <<config, workers, pidFile, lockFile, now, ticks, workload>>

\* part_003:180  postEvent('session_start'); a request no worker answers is
\* given up (line 189)
HookPost ==
    \E h \in DOMAIN hooks :
        /\ hooks[h].pc \in {"post", "post_locked"}
        /\ hooks' = goto(h, IF hooks[h].pc = "post_locked" THEN "release" ELSE "done")
        /\ IF running
           THEN \E name \in NamesFor("session_start") :
                   Deliver(Event("session_start", now, h, "", NoInput, NoResponse), name, "")
           ELSE wire' = EmptyMap /\ UNCHANGED workerKept
        /\ UNCHANGED <<config, workers, pidFile, lockFile, now, ticks, workload>>

\* part_003:43, 139  releaseLock in the finally of main
ReleaseLock ==
    \E h \in DOMAIN hooks :
        /\ hooks[h].pc = "release"
        /\ lockFile' = NoLock
        /\ hooks' = goto(h, "done")
        /\ wire' = EmptyMap
        /\ UNCHANGED workerKept
        /\ UNCHANGED <<config, workers, pidFile, now, ticks, workload>>

Next ==
    \/ SessionStart
    \/ SessionEnd
    \/ Pre
    \/ Post
    \/ Notification
    \/ UnknownPhase
    \/ Prune
    \/ PostConfig
    \/ Connect
    \/ SocketClosing
    \/ SocketClose
    \/ CmdOff
    \/ HookStart
    \/ LockExists
    \/ LockRead
    \/ LockWrite
    \/ Recheck
    \/ KillStaleWorker
    \/ SpawnWorker
    \/ WorkerListens
    \/ AwaitHealth
    \/ WaitForOther
    \/ HookPost
    \/ ReleaseLock
    \/ Tick

Spec == Init /\ [][Next]_vars

(***************************************************************************)
(* Vocabulary of the properties.                                           *)
(***************************************************************************)
\* the statistics of the snapshot in the current state
PublicStats == getPublicStats(World)

\* the positions <<agent, call>> of the tool calls of a session
CallsOf(s) ==
    UNION { { <<a, c>> : c \in DOMAIN s.agents[a].toolCalls } : a \in DOMAIN s.agents }
CallAt(s, p) == s.agents[p[1]].toolCalls[p[2]]

MainsOf(s) == { i \in DOMAIN s.agents : s.agents[i].type = "main" }

(***************************************************************************)
(* C1.  Lifetime totals never regress: no step (event or sweep) makes a    *)
(* total of the snapshot (carry-over plus the live sessions' counters)     *)
(* smaller than it was.                                                    *)
(***************************************************************************)
C1_TotalsNeverRegress ==
    [][\A k \in StatKeys : PublicStats'[k] >= PublicStats[k]]_vars

(***************************************************************************)
(* C2.  Every session holds zero or exactly one agent of type main.        *)
(***************************************************************************)
C2_AtMostOneMain ==
    \A sid \in DOMAIN sessions : Cardinality(MainsOf(sessions[sid])) <= 1

\* a session with its main agent beside a subagent, after two tool calls
C2_Witness ==
    \E sid \in DOMAIN sessions :
        /\ Cardinality(MainsOf(sessions[sid])) = 1
        /\ Len(sessions[sid].agents) >= 2
        /\ sessions[sid].stats.toolCalls >= 2

(***************************************************************************)
(* C3.  Every subagent's parentId is non-null and is the id of an agent    *)
(* of the same session (and of no agent of another session); every main    *)
(* agent's parentId is null.                                               *)
(***************************************************************************)
C3_ParentInSameSession ==
    \A sid \in DOMAIN sessions :
        \A i \in DOMAIN sessions[sid].agents :
            LET agent == sessions[sid].agents[i]
            IN  /\ agent.type = "main" => agent.parentId = NULL
                /\ agent.type = "subagent" =>
                      /\ agent.parentId # NULL
                      /\ \E j \in DOMAIN sessions[sid].agents :
                            sessions[sid].agents[j].id = agent.parentId
                      /\ \A other \in (DOMAIN sessions) \ {sid} :
                            \A j \in DOMAIN sessions[other].agents :
                                sessions[other].agents[j].id # agent.parentId

\* two live sessions with agents, one of them with a subagent
C3_Witness ==
    \E sid \in DOMAIN sessions, other \in DOMAIN sessions :
        /\ sid # other
        /\ Len(sessions[other].agents) > 0
        /\ \E i \in DOMAIN sessions[sid].agents : sessions[sid].agents[i].type = "subagent"

(***************************************************************************)
(* C4.  For every session and tool name, at most one ToolCall with that    *)
(* tool name is executing.                                                 *)
(***************************************************************************)
C4_OneExecutingPerTool ==
    \A sid \in DOMAIN sessions :
        \A p \in CallsOf(sessions[sid]), q \in CallsOf(sessions[sid]) :
            ( /\ CallAt(sessions[sid], p).status = "executing"
              /\ CallAt(sessions[sid], q).status = "executing"
              /\ CallAt(sessions[sid], p).tool = CallAt(sessions[sid], q).tool ) => p = q

\* a point in time, as opposed to undefined or null
IsTime(t) == t # UNDEFINED /\ t # NULL

(***************************************************************************)
(* C5.  A post for tool T in a session where a pre for T is pending (no    *)
(* pre for T, deletion or reset since) changes exactly one ToolCall: the   *)
(* call that pre created, the latest call for T of its agent, goes from    *)
(* executing to completed or error and gets a completion timestamp; no     *)
(* other ToolCall of the session changes.                                  *)
(***************************************************************************)
CompletesItsCall(s, t, tool) ==
    LET changed == { p \in CallsOf(s) : CallAt(t, p) # CallAt(s, p) }
    IN  /\ CallsOf(t) = CallsOf(s)
        /\ Cardinality(changed) = 1
        /\ \A p \in changed :
              /\ CallAt(s, p).tool = tool
              /\ CallAt(s, p).id = s.pendingToolCalls[tool]
              /\ \A q \in CallsOf(s) :
                    (q[1] = p[1] /\ q[2] > p[2]) => CallAt(s, q).tool # tool
              /\ CallAt(s, p).status = "executing"
              /\ CallAt(t, p).status \in {"completed", "error"}
              /\ IsTime(CallAt(t, p).completedAt)

C5_PostCompletesItsCall ==
    [][\A e \in EventsOf("post") :
          ( /\ SidOf(e) \in DOMAIN sessions
            /\ e.tool_name \in DOMAIN sessions[SidOf(e)].pendingToolCalls
            /\ Ingests(e) )
          => /\ SidOf(e) \in DOMAIN sessions'
             /\ CompletesItsCall(sessions[SidOf(e)], sessions'[SidOf(e)], e.tool_name)]_vars

(***************************************************************************)
(* C6.  A post for a tool that has no pending pre in its session is        *)
(* accepted: the session is in the store afterwards, it has the same       *)
(* ToolCalls with the same statuses as before (none for a session the      *)
(* post created), and its error counter is unchanged.                      *)
(***************************************************************************)
SameCalls(s, t) ==
    /\ Len(t.agents) = Len(s.agents)
    /\ \A i \in DOMAIN s.agents : t.agents[i].toolCalls = s.agents[i].toolCalls

C6_UnmatchedPostIsIgnored ==
    [][\A e \in EventsOf("post") :
          LET sid == SidOf(e)
              before == IF sid \in DOMAIN sessions THEN sessions[sid]
                        ELSE createSessionState(sid, e.timestamp, e.source)
          IN  ( /\ e.tool_name \notin DOMAIN before.pendingToolCalls
                /\ Ingests(e) )
              => /\ sid \in DOMAIN sessions'
                 /\ SameCalls(before, sessions'[sid])
                 /\ sessions'[sid].stats.errors = before.stats.errors]_vars

\* a tool_end of the timeline names a tool for which the session has no call:
\* a post was ingested while nothing was pending for its tool
C6_Witness ==
    \E sid \in DOMAIN sessions :
        \E i \in DOMAIN sessions[sid].timeline :
            /\ sessions[sid].timeline[i].type = "tool_end"
            /\ \A p \in CallsOf(sessions[sid]) :
                  CallAt(sessions[sid], p).tool # sessions[sid].timeline[i].tool
            /\ CallsOf(sessions[sid]) # {}

(***************************************************************************)
(* C7.  A session_start for an id that is in the store is a full reset:    *)
(* the old session's counters are added to the carry-over, and the session *)
(* under that id afterwards is fresh: active, all counters zero, empty     *)
(* timeline, files and pending calls, and one agent only, a newly created  *)
(* main agent without tool calls.                                          *)
(***************************************************************************)
IsFresh(t, newId) ==
    /\ t.status = "active"
    /\ t.endedAt = UNDEFINED
    /\ \A k \in StatKeys : t.stats[k] = 0
    /\ t.timeline = <<>>
    /\ DOMAIN t.files = {}
    /\ DOMAIN t.pendingToolCalls = {}
    /\ Len(t.agents) = 1
    /\ t.agents[1].type = "main"
    /\ t.agents[1].id = newId
    /\ t.agents[1].status = "active"
    /\ t.agents[1].toolCalls = <<>>
    /\ t.agents[1].toolCallCount = 0

C7_RestartIsFullReset ==
    [][\A e \in EventsOf("session_start") :
          LET sid == SidOf(e)
          IN  (sid \in DOMAIN sessions /\ Ingests(e))
              => /\ \A k \in StatKeys :
                       carryOverStats'[k] = carryOverStats[k] + sessions[sid].stats[k]
                 /\ sid \in DOMAIN sessions'
                 /\ sessions'[sid].startedAt = e.timestamp
                 /\ IsFresh(sessions'[sid], agentIdCounter)
                 /\ \A i \in DOMAIN sessions[sid].agents :
                       sessions[sid].agents[i].id # agentIdCounter]_vars

\* no time has passed, so no sweep has folded anything: the carry-over holds the
\* counters of a session that was reset, and the session is fresh
C7_Witness ==
    /\ ticks = 0
    /\ carryOverStats.toolCalls > 0
    /\ \E sid \in DOMAIN sessions : IsFresh(sessions[sid], agentIdCounter - 1)

(***************************************************************************)
(* C8.  Whenever a session leaves the store, by a sweep or by the reset of *)
(* a session_start, the name of its main agent is released: after the step *)
(* it is not in the set of used names, unless the main agent the reset     *)
(* created was given that very name.                                       *)
(***************************************************************************)
\* session sid of the current state is not in the next state: its id is absent,
\* or the session under the id holds none of its agents
LeavesStore(sid) ==
    \/ sid \notin DOMAIN sessions'
    \/ \A i \in DOMAIN sessions[sid].agents :
          \A j \in DOMAIN sessions'[sid].agents :
              sessions'[sid].agents[j].id # sessions[sid].agents[i].id

C8_DeletionReleasesName ==
    [][\A sid \in DOMAIN sessions :
          \A i \in MainsOf(sessions[sid]) :
              LeavesStore(sid) =>
                  \/ sessions[sid].agents[i].name \notin usedNames'
                  \/ /\ sid \in DOMAIN sessions'
                     /\ \E j \in MainsOf(sessions'[sid]) :
                           sessions'[sid].agents[j].name = sessions[sid].agents[i].name]_vars

(***************************************************************************)
(* C9.  When a sweep deletes ended sessions past the retention window,     *)
(* each carry-over counter grows by exactly the sum of that counter over   *)
(* the deleted ended sessions; and a session that enters the store starts  *)
(* from zero: after a session_start all its counters are 0, otherwise they *)
(* count the one record that created it and nothing of the carry-over.     *)
(***************************************************************************)
RECURSIVE SumStat(_, _, _)
SumStat(S, ids, k) ==
    IF ids = {} THEN 0
    ELSE LET id == CHOOSE x \in ids : TRUE
         IN  S[id].stats[k] + SumStat(S, ids \ {id}, k)

EndedAndGone ==
    { id \in DOMAIN sessions : sessions[id].status = "ended" /\ id \notin DOMAIN sessions' }

StartsFromZero(t) ==
    /\ t.stats.toolCalls = Cardinality(CallsOf(t))
    /\ t.stats.toolCalls + t.stats.turns <= 1
    /\ t.stats.errors = 0
    /\ t.stats.toolCalls = 0 =>
          \A k \in StatKeys \ {"turns"} : t.stats[k] = 0
    /\ Len(t.timeline) = 0 => \A k \in StatKeys \ {"turns"} : t.stats[k] = 0

C9_SweepFoldsExactly ==
    [][/\ Prune => \A k \in StatKeys :
                      carryOverStats'[k] = carryOverStats[k] + SumStat(sessions, EndedAndGone, k)
       /\ \A sid \in (DOMAIN sessions') \ (DOMAIN sessions) : StartsFromZero(sessions'[sid])
       /\ \A e \in EventsOf("session_start") :
             Ingests(e) => \A k \in StatKeys : sessions'[SidOf(e)].stats[k] = 0]_vars

\* the carry-over holds the tool call and the error of a session that a sweep
\* deleted (its name is free again), and the session started since has counted
\* nothing
C9_Witness ==
    /\ ticks > 0
    /\ carryOverStats.toolCalls > 0
    /\ carryOverStats.errors > 0
    /\ agentIdCounter = 2
    /\ Cardinality(usedNames) = 1
    /\ \E sid \in DOMAIN sessions : IsFresh(sessions[sid], 1)

(***************************************************************************)
(* C10.  A pre, post or notification for a session whose status is ended   *)
(* makes it active, clears its end timestamp, makes its main agent, if     *)
(* completed, active with no completion timestamp, and sets its last       *)
(* activity to the record's timestamp; the deletion rule for ended         *)
(* sessions then does not apply to it at any later time.                   *)
(***************************************************************************)
C10_EventReactivatesEndedSession ==
    [][\A e \in EventsOf("pre") \cup EventsOf("post") \cup EventsOf("notification") :
          LET sid == SidOf(e)
          IN  ( /\ sid \in DOMAIN sessions
                /\ sessions[sid].status = "ended"
                /\ Ingests(e) )
              => /\ sid \in DOMAIN sessions'
                 /\ sessions'[sid].status = "active"
                 /\ sessions'[sid].endedAt = UNDEFINED
                 /\ sessions'[sid].lastActivity = e.timestamp
                 /\ \A i \in MainsOf(sessions[sid]) :
                       /\ sessions'[sid].agents[i].type = "main"
                       /\ sessions'[sid].agents[i].status = "active"
                       /\ sessions[sid].agents[i].status = "completed"
                             => sessions'[sid].agents[i].completedAt = NULL
                 /\ \A d \in ClockSteps : ~endedExpired(sessions'[sid], now + d)]_vars

\* an active session whose main agent is active beside a subagent that was
\* completed by the end of the session, not by a post of its Task
C10_Witness ==
    \E sid \in DOMAIN sessions :
        LET s == sessions[sid]
        IN  /\ s.status = "active"
            /\ s.endedAt = UNDEFINED
            /\ \E i \in MainsOf(s) : s.agents[i].status = "active"
            /\ \E i \in DOMAIN s.agents :
                  s.agents[i].type = "subagent" /\ s.agents[i].status = "completed"
            /\ \A i \in DOMAIN s.timeline : s.timeline[i].type # "tool_end"
            /\ s.stats.turns > 0

(***************************************************************************)
(* C11.  reactivateIfEnded on a session whose status is active changes     *)
(* nothing but the last activity (status, end timestamp and the agents'    *)
(* statuses and completion timestamps stay), and applying it twice with    *)
(* one timestamp gives what applying it once gives.  The sessions are the  *)
(* sessions of the store, as they are and with the status set to active.   *)
(***************************************************************************)
ReactivationInputs ==
    UNION { { sessions[sid], [sessions[sid] EXCEPT !.status = "active"] } :
              sid \in DOMAIN sessions }

C11_ReactivationIdempotent ==
    \A ss \in ReactivationInputs, t \in EventTimestamps(now, TRUE) :
        /\ ss.status = "active" => reactivateIfEnded(ss, t) = [ss EXCEPT !.lastActivity = t]
        /\ reactivateIfEnded(reactivateIfEnded(ss, t), t) = reactivateIfEnded(ss, t)

\* an ended session whose main agent and subagent are completed: reactivation
\* revives its main agent once, and nothing of it when its status is active
C11_Witness ==
    \E sid \in DOMAIN sessions :
        /\ sessions[sid].status = "ended"
        /\ Len(sessions[sid].agents) >= 2
        /\ \A i \in DOMAIN sessions[sid].agents : sessions[sid].agents[i].status = "completed"

(***************************************************************************)
(* C12.  As claimed: every active session idle for longer than the stale   *)
(* timeout when a sweep runs is in the store after the sweep, ended, with  *)
(* an end timestamp, and each of its agents that was active is completed   *)
(* with the end timestamp as completion timestamp.                         *)
(***************************************************************************)
IdleOver(s, limit) == IsTime(s.lastActivity) /\ now - s.lastActivity > limit

\* what a sweep at the current time makes of the current state
Swept == pruneStaleAndEndedSessions(World, now)

EndedBySweep(s, t) ==
    /\ t.status = "ended"
    /\ IsTime(t.endedAt)
    /\ t.endedAt = now
    /\ Len(t.agents) = Len(s.agents)
    /\ \A i \in DOMAIN s.agents :
          s.agents[i].status = "active"
              => t.agents[i].status = "completed" /\ t.agents[i].completedAt = t.endedAt

C12_StaleSessionIsEnded ==
    \A sid \in DOMAIN sessions :
        (sessions[sid].status = "active" /\ IdleOver(sessions[sid], STALE_TIMEOUT))
            => /\ sid \in DOMAIN Swept.sessions
               /\ EndedBySweep(sessions[sid], Swept.sessions[sid])

(***************************************************************************)
(* C12, amended.  Every active session with at least one tool call that    *)
(* is idle for longer than the stale timeout when a sweep runs is in the   *)
(* store after the sweep, ended at the sweep time, its active agents       *)
(* completed at that time (a session without tool calls is deleted by the  *)
(* ghost rule instead).                                                    *)
(***************************************************************************)
C12_StaleWorkingSessionIsEnded ==
    \A sid \in DOMAIN sessions :
        ( /\ sessions[sid].status = "active"
          /\ sessions[sid].stats.toolCalls > 0
          /\ IdleOver(sessions[sid], STALE_TIMEOUT) )
            => /\ sid \in DOMAIN Swept.sessions
               /\ EndedBySweep(sessions[sid], Swept.sessions[sid])

\* an active session with a tool call and an active agent is idle beyond the timeout
C12_Witness ==
    \E sid \in DOMAIN sessions :
        /\ sessions[sid].status = "active"
        /\ sessions[sid].stats.toolCalls > 0
        /\ IdleOver(sessions[sid], STALE_TIMEOUT)
        /\ \E i \in DOMAIN sessions[sid].agents : sessions[sid].agents[i].status = "active"

(***************************************************************************)
(* C13.  An active session without tool calls that is idle for longer than *)
(* 15 s when a sweep runs is not in the store after the sweep, and the     *)
(* carry-over gets nothing from it: each counter grows by the counters of  *)
(* the other sessions the sweep deleted only.                              *)
(***************************************************************************)
GhostsNow ==
    { sid \in DOMAIN sessions :
        /\ sessions[sid].status = "active"
        /\ sessions[sid].stats.toolCalls = 0
        /\ IdleOver(sessions[sid], GHOST_IDLE) }

C13_GhostIsDeletedUnfolded ==
    /\ \A sid \in GhostsNow : sid \notin DOMAIN Swept.sessions
    /\ \A k \in StatKeys :
          Swept.carryOverStats[k] = carryOverStats[k]
              + SumStat(sessions, ((DOMAIN sessions) \ (DOMAIN Swept.sessions)) \ GhostsNow, k)

\* a ghost that has counted a turn, at a time when a sweep deletes it
C13_Witness ==
    \E sid \in GhostsNow :
        /\ sessions[sid].stats.turns > 0
        /\ now - sessions[sid].lastActivity <= STALE_TIMEOUT

(***************************************************************************)
(* C14.  A sweep leaves an ended session whose end timestamp is not older  *)
(* than the retention window of 2 minutes in the store as it is: counters, *)
(* agents, timeline and all.                                               *)
(***************************************************************************)
C14_EndedSessionIsRetained ==
    \A sid \in DOMAIN sessions :
        ( /\ sessions[sid].status = "ended"
          /\ IsTime(sessions[sid].endedAt)
          /\ sessions[sid].endedAt >= now - ENDED_RETENTION )
            => sid \in DOMAIN Swept.sessions /\ Swept.sessions[sid] = sessions[sid]

\* time has passed since a session with a tool call ended, less than the window
C14_Witness ==
    \E sid \in DOMAIN sessions :
        /\ sessions[sid].status = "ended"
        /\ IsTime(sessions[sid].endedAt)
        /\ sessions[sid].endedAt < now
        /\ sessions[sid].endedAt >= now - ENDED_RETENTION
        /\ sessions[sid].stats.toolCalls > 0

(***************************************************************************)
(* C15.  Every session is garbage-collected once events for it stop,       *)
(* whatever records created it, records without a timestamp included.  The *)
(* rules of the sweep compare the clock with the timestamps of the         *)
(* session, so a session that two sweeps, each later than every window,    *)
(* leave in the store stays there at every later sweep: the claim is that  *)
(* no session of a reachable state is left by two such sweeps.             *)
(***************************************************************************)
BeyondWindows == STALE_TIMEOUT + ENDED_RETENTION + GHOST_IDLE

SweptTwiceLater ==
    pruneStaleAndEndedSessions(pruneStaleAndEndedSessions(World, now + BeyondWindows),
                               now + BeyondWindows + BeyondWindows)

C15_EverySessionIsCollected ==
    \A sid \in DOMAIN sessions : sid \notin DOMAIN SweptTwiceLater.sessions

(***************************************************************************)
(* C16.  A sweep sends one state broadcast if it deleted or ended at least *)
(* one session, however many, and none if it changed no session.           *)
(***************************************************************************)
ChangedBySweep ==
    { sid \in DOMAIN sessions :
        sid \notin DOMAIN Swept.sessions \/ Swept.sessions[sid] # sessions[sid] }

C16_OneBroadcastPerSweep ==
    sweepBroadcasts(World, now) = IF ChangedBySweep # {} THEN 1 ELSE 0

\* a sweep now changes two sessions at once
C16_Witness == Cardinality(ChangedBySweep) >= 2

(***************************************************************************)
(* C17.  A record without a timestamp is processed with the ingestion time *)
(* as its timestamp, so every timestamp written into the state is a time:  *)
(* a session's start and last activity, the end of an ended session, the   *)
(* start of a tool call, the completion of a completed tool call or agent. *)
(***************************************************************************)
C17_TimestampsAreDefined ==
    \A sid \in DOMAIN sessions :
        LET s == sessions[sid]
        IN  /\ IsTime(s.startedAt)
            /\ IsTime(s.lastActivity)
            /\ s.status = "ended" => IsTime(s.endedAt)
            /\ \A i \in DOMAIN s.agents :
                  s.agents[i].status = "completed" => IsTime(s.agents[i].completedAt)
            /\ \A p \in CallsOf(s) :
                  /\ IsTime(CallAt(s, p).startedAt)
                  /\ CallAt(s, p).status \in {"completed", "error"}
                        => IsTime(CallAt(s, p).completedAt)
            /\ \A i \in DOMAIN s.timeline : IsTime(s.timeline[i].timestamp)

(***************************************************************************)
(* C18.  A record whose phase is none of session_start, session_end, pre,  *)
(* post, notification is dropped: processing it leaves the store, the      *)
(* carry-over, the name pool and the agent id counter as they are.  (No    *)
(* statement on its path can throw, so the route answers status ok.)       *)
(***************************************************************************)
C18_UnknownPhaseIsDropped ==
    \A e \in EventsOf("heartbeat"), name \in AGENT_NAMES, suffix \in RandomSuffixes :
        processEvent(World, e, name, now, suffix) = World

\* such a record may arrive for a session id that is not in the store, while
\* the carry-over and the name pool are not empty
C18_Witness ==
    /\ "heartbeat" \in workload.phases
    /\ \E id \in workload.ids : SidOf([session_id |-> id]) \notin DOMAIN sessions
    /\ carryOverStats.toolCalls > 0
    /\ usedNames # {}

(***************************************************************************)
(* C19.  A session_end for a session id that is not in the store is a      *)
(* no-op: no session is created, no session changes, the carry-over is     *)
(* unchanged.                                                              *)
(***************************************************************************)
C19_EndOfUnknownSessionIsNoOp ==
    \A e \in EventsOf("session_end") :
        SidOf(e) \notin DOMAIN sessions => processEvent(World, e, "", now, "") = World

\* a session_end may arrive for an id that is not in the store while another
\* session, with a tool call, is
C19_Witness ==
    /\ "session_end" \in workload.phases
    /\ \E id \in workload.ids : SidOf([session_id |-> id]) \notin DOMAIN sessions
    /\ \E sid \in DOMAIN sessions : sessions[sid].stats.toolCalls > 0

(***************************************************************************)
(* C20.  findActiveAgent returns the agent at the highest position of the  *)
(* list whose status is active; the first agent of the list if none is     *)
(* active; null (0) if the list is empty.                                  *)
(***************************************************************************)
ActiveAt(s) == { i \in DOMAIN s.agents : s.agents[i].status = "active" }

C20_FindActiveAgent ==
    \A sid \in DOMAIN sessions :
        LET s == sessions[sid]
            found == findActiveAgent(s)
        IN  /\ ActiveAt(s) # {} => found \in ActiveAt(s) /\ \A j \in ActiveAt(s) : j <= found
            /\ (ActiveAt(s) = {} /\ Len(s.agents) > 0) => found = 1
            /\ Len(s.agents) = 0 => found = 0

\* two sessions, one whose main agent and subagent are both active, one whose
\* agents are all completed
C20_Witness ==
    /\ \E sid \in DOMAIN sessions : Cardinality(ActiveAt(sessions[sid])) >= 2
    /\ \E sid \in DOMAIN sessions :
          ActiveAt(sessions[sid]) = {} /\ Len(sessions[sid].agents) > 0

\* the subagents of a session, by position
SubsOf(s) == { i \in DOMAIN s.agents : s.agents[i].type = "subagent" }

\* the session a record finds: the stored one, or the one created for it
Found(e) ==
    IF SidOf(e) \in DOMAIN sessions THEN sessions[SidOf(e)]
    ELSE createSessionState(SidOf(e), e.timestamp, e.source)

\* the agents of s are the first agents of t
KeepsAgents(s, t) ==
    /\ Len(t.agents) >= Len(s.agents)
    /\ \A i \in DOMAIN s.agents : t.agents[i].id = s.agents[i].id

(***************************************************************************)
(* C21.  A pre with tool name Task appends one subagent, at the end of the *)
(* agent list of the session (after the main agent, which the pre creates  *)
(* if the session has none): status active, parentId the id of the main    *)
(* agent, name the description of the request or 'Subagent', type label    *)
(* the subagent_type of the request or 'general-purpose'.  A pre with      *)
(* another tool name appends no subagent.                                  *)
(***************************************************************************)
SpawnedFrom(agent, mainId, input) ==
    /\ agent.type = "subagent"
    /\ agent.status = "active"
    /\ agent.parentId = mainId
    /\ agent.name = IF input.description = "" THEN "Subagent" ELSE input.description
    /\ agent.subagentType = IF input.subagent_type = "" THEN "general-purpose"
                            ELSE input.subagent_type

C21_TaskSpawnsOneSubagent ==
    [][\A e \in EventsOf("pre") :
          Ingests(e) =>
              LET s == Found(e)
                  t == sessions'[SidOf(e)]
                  last == t.agents[Len(t.agents)]
              IN  /\ KeepsAgents(s, t)
                  /\ \A i \in MainsOf(s) : i \in MainsOf(t)
                  /\ Cardinality(MainsOf(t)) = 1
                  /\ e.tool_name = "Task" =>
                        /\ Cardinality(SubsOf(t)) = Cardinality(SubsOf(s)) + 1
                        /\ \A i \in DOMAIN s.agents : s.agents[i].id # last.id
                        /\ \E m \in MainsOf(t) : SpawnedFrom(last, t.agents[m].id, e.tool_input)
                  /\ e.tool_name # "Task" => Cardinality(SubsOf(t)) = Cardinality(SubsOf(s))
                  /\ \A input \in {TaskInput, NoInput} :
                        LET made == spawnSubagent(World', SidOf(e), 0, input).sessions[SidOf(e)].agents
                        IN  SpawnedFrom(made[Len(made)], 0, input)]_vars

\* a session created by a pre for Task: the main agent, then the subagent
C21_Witness ==
    \E sid \in DOMAIN sessions :
        /\ Len(sessions[sid].agents) = 2
        /\ Len(sessions[sid].timeline) = 2
        /\ sessions[sid].timeline[1].type = "agent_spawn"
        /\ MainsOf(sessions[sid]) = {1}
        /\ SubsOf(sessions[sid]) = {2}

(***************************************************************************)
(* C22.  The parent of a newly spawned subagent is the agent that          *)
(* findActiveAgent returns for the session right before the spawn: the     *)
(* active agent at the highest position, an earlier subagent if it is      *)
(* still active.                                                           *)
(***************************************************************************)
C22_ParentIsActiveAgent ==
    [][\A e \in EventsOf("pre") :
          (e.tool_name = "Task" /\ Ingests(e)) =>
              LET t == sessions'[SidOf(e)]
                  n == Len(t.agents)
                  earlier == { i \in ActiveAt(t) : i < n }
              IN  \A i \in earlier :
                      (\A j \in earlier : j <= i) => t.agents[n].parentId = t.agents[i].id]_vars

(***************************************************************************)
(* C23.  As claimed: a post with tool name Task completes the most         *)
(* recently appended subagent that is still active, with the timestamp of  *)
(* the record as completion timestamp; it changes the status of at most    *)
(* one agent, never completes the main agent, and changes no agent's       *)
(* status when no subagent is active.                                      *)
(***************************************************************************)
StatusChanged(s, t) == { i \in DOMAIN s.agents : t.agents[i].status # s.agents[i].status }

LastActiveSub(s) ==
    { i \in SubsOf(s) \cap ActiveAt(s) : \A j \in SubsOf(s) \cap ActiveAt(s) : j <= i }

C24_NoSubagentResurrection ==
    [][\A sid \in (DOMAIN sessions) \cap (DOMAIN sessions') :
          \A i \in DOMAIN sessions[sid].agents :
              ( /\ i \in DOMAIN sessions'[sid].agents
                /\ sessions'[sid].agents[i].id = sessions[sid].agents[i].id
                /\ sessions[sid].agents[i].status = "completed"
                /\ sessions'[sid].agents[i].status # "completed" )
              => /\ sessions[sid].agents[i].type = "main"
                 /\ sessions[sid].status = "ended"
                 /\ sessions'[sid].status = "active"]_vars

\* a session was ended and reactivated after two tool calls: its main agent is
\* active again, its subagent is still completed
C24_Witness ==
    \E sid \in DOMAIN sessions :
        LET s == sessions[sid]
        IN  /\ s.status = "active"
            /\ s.stats.toolCalls >= 2
            /\ \E i \in MainsOf(s) : s.agents[i].status = "active"
            /\ \E i \in SubsOf(s) : s.agents[i].status = "completed"
            /\ \A i \in DOMAIN s.timeline : s.timeline[i].type # "tool_end"

(***************************************************************************)
(* C25.  While a session stays in the store and is not reset by a          *)
(* session_start, none of its counters decreases, in any event or sweep.   *)
(***************************************************************************)
C25_SessionCountersNeverDecrease ==
    [][\A sid \in (DOMAIN sessions) \cap (DOMAIN sessions') :
          (\A e \in EventsOf("session_start") : ~(SidOf(e) = sid /\ Ingests(e)))
              => \A k \in StatKeys : sessions'[sid].stats[k] >= sessions[sid].stats[k]]_vars

\* an ended session that has counted a tool call, removed lines and an error
C25_Witness ==
    \E sid \in DOMAIN sessions :
        /\ sessions[sid].status = "ended"
        /\ sessions[sid].stats.toolCalls > 0
        /\ sessions[sid].stats.linesRemoved > 0
        /\ sessions[sid].stats.errors > 0

(***************************************************************************)
(* C26.  A configuration update takes effect without a restart: once the   *)
(* stale timeout is configured, a sweep ends exactly the working sessions  *)
(* that are idle for longer than the configured duration; once the maximum *)
(* timeline length is configured, the next record processed for a session  *)
(* leaves its timeline no longer than the configured length.               *)
(***************************************************************************)
SweepUsesConfiguredTimeout ==
    \A sid \in DOMAIN sessions :
        ( /\ Truthy(config.staleTimeout)
          /\ sessions[sid].status = "active"
          /\ sessions[sid].stats.toolCalls > 0 )
            => ( IdleOver(sessions[sid], config.staleTimeout)
                    <=> /\ sid \in DOMAIN Swept.sessions
                        /\ Swept.sessions[sid].status = "ended" )

EventsTrimToConfiguredLength ==
    \A phase \in workload.phases :
        \A e \in EventsOf(phase), name \in NamesFor(phase), suffix \in SuffixesFor(phase) :
            \A w \in {processEvent(World, e, name, now, suffix)} :
                (Truthy(config.maxTimelineEvents) /\ SidOf(e) \in DOMAIN w.sessions)
                    => Len(w.sessions[SidOf(e)].timeline) <= config.maxTimelineEvents

C26_ConfigTakesEffect == SweepUsesConfiguredTimeout /\ EventsTrimToConfiguredLength

(***************************************************************************)
(* C27.  A broadcast is sent to exactly the sockets of the Set that are    *)
(* open when it is made: a socket that is not open gets no message in the  *)
(* step and in no later step (nothing is kept for it), the open ones get   *)
(* theirs whether or not another socket is not open, and the record is     *)
(* processed all the same.                                                 *)
(***************************************************************************)
OpenBefore == { c \in DOMAIN clients : clients[c] = OPEN }

\* every open socket got one message, of the given type, and no other socket
\* got any
Broadcasts(type) ==
    /\ DOMAIN wire' = OpenBefore
    /\ \A c \in OpenBefore : Len(wire'[c]) = 1 /\ wire'[c][1].type = type

HoldsLock(h) ==
    hooks[h].pc \in {"recheck", "kill", "spawn", "await", "post_locked", "release"}

C28_OneSpawner ==
    /\ \A h1 \in DOMAIN hooks, h2 \in DOMAIN hooks :
          ( /\ h1 # h2
            /\ lockFile.exists
            /\ now - lockFile.ts < LOCK_STALE )
              => ~(HoldsLock(h1) /\ HoldsLock(h2))
    /\ (workload.hooks # {} /\ now - NowInit < LOCK_STALE) => Len(workers) <= 1

(***************************************************************************)
(* C29.  kmoni-ctl off --source=X removes or ends only sessions tagged X:  *)
(* every session with another source tag is in the store, unchanged, after *)
(* the command, and the worker is still running if there is such a         *)
(* session.                                                                *)
(***************************************************************************)
C29_DisconnectSparesOtherSources ==
    [][\A mySource \in workload.cli :
          CmdOffFor(mySource) =>
              /\ \A sid \in DOMAIN sessions :
                    sessions[sid].source # mySource
                        => sid \in DOMAIN sessions' /\ sessions'[sid] = sessions[sid]
              /\ (\E sid \in DOMAIN sessions : sessions[sid].source # mySource)
                    => \E i \in DOMAIN workers' : workers'[i] = "listening"]_vars

(***************************************************************************)
(* C30.  A new main agent gets a unique display name: when a step creates  *)
(* a main agent and the store then holds fewer sessions than the pool has  *)
(* names, the name of the new main agent differs from the name of the main *)
(* agent of every other session in the store.                              *)
(***************************************************************************)
NewMains(sid) ==
    { j \in MainsOf(sessions'[sid]) :
         \/ sid \notin DOMAIN sessions
         \/ \A i \in DOMAIN sessions[sid].agents :
               sessions[sid].agents[i].id # sessions'[sid].agents[j].id }

C30_NewMainHasUniqueName ==
    [][\A sid \in DOMAIN sessions' :
          \A j \in NewMains(sid) :
              Cardinality(DOMAIN sessions') < Cardinality(AGENT_NAMES)
                  => \A other \in (DOMAIN sessions') \ {sid} :
                        \A m \in MainsOf(sessions'[other]) :
                            sessions'[other].agents[m].name # sessions'[sid].agents[j].name]_vars

(***************************************************************************)
(* C31.  Agent ids are unique during the life of a worker process and are  *)
(* allocated in increasing order: while the process lives the counter      *)
(* never decreases, every agent a step creates gets an id that is at least *)
(* the counter before the step and below the counter after it (so it is    *)
(* above the id of every agent created earlier, deleted or not), no two    *)
(* agents in the store share an id, and the ids of a session's agents      *)
(* increase along the list.                                                *)
(***************************************************************************)
AgentsIn(S) == UNION { { <<sid, j>> : j \in DOMAIN S[sid].agents } : sid \in DOMAIN S }

C31_AgentIdsAreUnique ==
    [][Survives(workers, workers') =>
          /\ agentIdCounter' >= agentIdCounter
          /\ \A p \in AgentsIn(sessions') :
                LET a == sessions'[p[1]].agents[p[2]]
                IN  /\ \/ /\ p \in AgentsIn(sessions)
                          /\ sessions[p[1]].agents[p[2]].id = a.id
                       \/ a.id >= agentIdCounter /\ a.id < agentIdCounter'
                    /\ \A q \in AgentsIn(sessions') :
                          LET b == sessions'[q[1]].agents[q[2]]
                          IN  /\ q # p => b.id # a.id
                              /\ (q[1] = p[1] /\ q[2] < p[2]) => b.id < a.id]_vars

\* agents of two sessions are in the store, and at least one agent created
\* earlier is no longer there
C31_Witness ==
    /\ Cardinality(DOMAIN sessions) = 2
    /\ \A sid \in DOMAIN sessions : Len(sessions[sid].agents) > 0
    /\ Cardinality(AgentsIn(sessions)) < agentIdCounter

(***************************************************************************)
(* C32.  Every record that processEvent handles is followed by exactly one *)
(* broadcast, of type event, that carries the record and the snapshot of   *)
(* the state after the record was handled; for every phase, also when the  *)
(* record changes nothing (a session_end for an unknown session, a post    *)
(* that matches no call, an unrecognized phase).                           *)
(***************************************************************************)
C32_OneEventBroadcastPerRecord ==
    [][OpenBefore # {} =>
          \A ph \in workload.phases : \A e \in EventsOf(ph) :
              (clients' = clients /\ Ingests(e)) =>
                  \A c \in OpenBefore :
                      /\ c \in DOMAIN wire'
                      /\ wire'[c] = << [type |-> "event", event |-> e,
                                        state |-> [stats |-> PublicStats',
                                                   sessions |-> sessions']] >>]_vars

\* an open socket has just been sent the record of a session_end for a session
\* that is not in the store
C32_Witness ==
    \E c \in DOMAIN wire :
        /\ Len(wire[c]) = 1
        /\ wire[c][1].type = "event"
        /\ wire[c][1].event.phase = "session_end"
        /\ SidOf(wire[c][1].event) \notin DOMAIN sessions

(***************************************************************************)
(* C33.  File accesses are deduplicated by path: after every step the      *)
(* filesAccessed counter of a session is the number of paths in its file   *)
(* map; a pre of a file tool on a tracked path adds one to the access      *)
(* count of the path and leaves filesAccessed and the set of paths         *)
(* unchanged; on a new path it adds the path with access count one and     *)
(* adds one to filesAccessed.                                              *)
(***************************************************************************)
C33_FilesAreDeduplicated ==
    [][/\ \A sid \in DOMAIN sessions' :
              sessions'[sid].stats.filesAccessed = Cardinality(DOMAIN sessions'[sid].files)
       /\ \A e \in EventsOf("pre") :
              ( /\ e.tool_name \in {"Read", "Edit", "Write"}
                /\ e.tool_input.file_path # ""
                /\ Ingests(e) ) =>
                  LET s == Found(e)
                      t == sessions'[SidOf(e)]
                      path == e.tool_input.file_path
                  IN  /\ path \in DOMAIN t.files
                      /\ t.files[path].lastAccessed = e.timestamp
                      /\ IF path \in DOMAIN s.files
                         THEN /\ t.files[path].accessCount = s.files[path].accessCount + 1
                              /\ t.stats.filesAccessed = s.stats.filesAccessed
                              /\ DOMAIN t.files = DOMAIN s.files
                         ELSE /\ t.files[path].accessCount = 1
                              /\ t.stats.filesAccessed = s.stats.filesAccessed + 1
                              /\ DOMAIN t.files = (DOMAIN s.files) \cup {path}]_vars

\* a path of a session has been accessed twice
C33_Witness ==
    \E sid \in DOMAIN sessions :
        \E path \in DOMAIN sessions[sid].files :
            /\ sessions[sid].files[path].accessCount = 2
            /\ sessions[sid].stats.filesAccessed = 1

\* the configured maximum length of a timeline (config.maxTimelineEvents || 1000)
MaxTimelineNow == OrDefault(config.maxTimelineEvents, DEFAULT_MAX_TIMELINE)

\* sequence a is the tail of sequence b
IsTailOf(a, b) ==
    /\ Len(a) <= Len(b)
    /\ a = SubSeq(b, Len(b) - Len(a) + 1, Len(b))

(***************************************************************************)
(* C34.  A session's timeline is bounded: after every processed record the *)
(* timeline of its session is at most config.maxTimelineEvents (default    *)
(* 1000) long, and what a pre, post or notification record keeps is the    *)
(* tail of the old timeline followed by the entries it added, in order.    *)
(***************************************************************************)
C34_TimelineIsBounded ==
    [][\A phase \in workload.phases : \A e \in EventsOf(phase) :
          (Ingests(e) /\ SidOf(e) \in DOMAIN sessions') =>
              LET s == Found(e)
                  t == sessions'[SidOf(e)]
              IN  /\ Len(t.timeline) <= MaxTimelineNow
                  /\ phase \in {"pre", "post", "notification"} =>
                        \E n \in 0..2 :
                            /\ n <= Len(t.timeline)
                            /\ IsTailOf(SubSeq(t.timeline, 1, Len(t.timeline) - n),
                                        s.timeline)]_vars

(***************************************************************************)
(* C35.  In every reachable state a session whose status is ended has no   *)
(* agent with status active.                                               *)
(***************************************************************************)
C35_EndedSessionHasNoActiveAgent ==
    \A sid \in DOMAIN sessions :
        sessions[sid].status = "ended" => ActiveAt(sessions[sid]) = {}

\* a session was ended while a subagent was active: the subagent was completed
\* at the moment the session ended
C35_Witness ==
    \E sid \in DOMAIN sessions :
        /\ sessions[sid].status = "ended"
        /\ \E i \in SubsOf(sessions[sid]) :
              /\ sessions[sid].agents[i].status = "completed"
              /\ sessions[sid].agents[i].completedAt = sessions[sid].endedAt

\* the session of record e at the moment its handler calls findActiveAgent
AtLookup(e, name) ==
    IF e.phase = "pre"
    THEN spawnForTask(getOrCreateMainAgent(openSession(World, SidOf(e), e.timestamp,
                                                       detectSource(e)),
                                           SidOf(e), name),
                      SidOf(e), e).sessions[SidOf(e)]
    ELSE openSession(World, SidOf(e), e.timestamp, detectSource(e)).sessions[SidOf(e)]

(***************************************************************************)
(* C36.  In every reachable state the main agent of an active session that *)
(* has agents is the first agent of the list and is active; so, for every  *)
(* pre, post or notification record that may arrive, findActiveAgent       *)
(* returns an active agent when the session has agents, and the agent on   *)
(* which a pre records its ToolCall is active.                             *)
(***************************************************************************)
C36_MainAgentIsFirstAndActive ==
    /\ \A sid \in DOMAIN sessions :
          (sessions[sid].status = "active" /\ Len(sessions[sid].agents) > 0) =>
              /\ MainsOf(sessions[sid]) = {1}
              /\ sessions[sid].agents[1].status = "active"
    /\ \A phase \in workload.phases \cap {"pre", "post", "notification"} :
          \A e \in EventsOf(phase), name \in NamesFor(phase) :
              \A mid \in {AtLookup(e, name)} :
                  /\ Len(mid.agents) > 0 =>
                        mid.agents[findActiveAgent(mid)].status = "active"
                  /\ phase = "pre" =>
                        \A suffix \in SuffixesFor(phase) :
                            \A t \in {processEvent(World, e, name, now, suffix).sessions[SidOf(e)]} :
                                \A i \in DOMAIN t.agents :
                                    Len(t.agents[i].toolCalls) > Len(mid.agents[i].toolCalls)
                                        => /\ t.agents[i].status = "active"
                                           /\ mid.agents[i].status = "active"

\* after a subagent completed, a ToolCall was recorded on the active main agent
C36_Witness ==
    \E sid \in DOMAIN sessions :
        /\ sessions[sid].status = "active"
        /\ \E i \in SubsOf(sessions[sid]) :
              /\ sessions[sid].agents[i].status = "completed"
              /\ \E c \in DOMAIN sessions[sid].agents[1].toolCalls :
                    /\ sessions[sid].agents[1].toolCalls[c].status = "executing"
                    /\ sessions[sid].agents[1].toolCalls[c].startedAt
                          >= sessions[sid].agents[i].completedAt

\* sum of toolCallCount over a list of agents
RECURSIVE SumCallCounts(_)
SumCallCounts(agents) ==
    IF agents = <<>> THEN 0
    ELSE agents[1].toolCallCount + SumCallCounts(Tail(agents))

\* the three counts of the tool calls of a session
CallCounts(s) ==
    <<s.stats.toolCalls, SumCallCounts(s.agents), Cardinality(CallsOf(s))>>

\* after every step the three counts of every session agree
CallCountsAgree ==
    \A sid \in DOMAIN sessions' :
        \A n \in {CallCounts(sessions'[sid])} : n[1] = n[2] /\ n[2] = n[3]

\* record e of the given phase adds d to each of the three counts of its session
AddsToCallCounts(e, d) ==
    (Ingests(e) /\ SidOf(e) \in DOMAIN sessions') =>
        \A m \in {CallCounts(Found(e))}, n \in {CallCounts(sessions'[SidOf(e)])} :
            \A k \in 1..3 : n[k] = m[k] + d

(***************************************************************************)
(* C37.  In every reachable state a session's toolCalls counter equals the *)
(* sum of its agents' toolCallCount, which equals the number of ToolCall   *)
(* records of its agents; each pre adds exactly one to all three and no    *)
(* other record changes them.                                              *)
(***************************************************************************)
C37_ToolCallCountsAgree ==
    [][/\ CallCountsAgree
       /\ \A phase \in workload.phases : \A e \in EventsOf(phase) :
              AddsToCallCounts(e, IF phase = "pre" THEN 1 ELSE 0)]_vars

(***************************************************************************)
(* C37 (amended).  As C37, except that a session_start record for a        *)
(* session already in the store replaces it by a fresh session in which    *)
(* all three counts are zero.                                              *)
(***************************************************************************)
C37_ToolCallCountsAgreeButForReset ==
    [][/\ CallCountsAgree
       /\ \A phase \in workload.phases \ {"session_start"} : \A e \in EventsOf(phase) :
              AddsToCallCounts(e, IF phase = "pre" THEN 1 ELSE 0)
       /\ "session_start" \in workload.phases =>
              \A e \in EventsOf("session_start") :
                  Ingests(e) => CallCounts(sessions'[SidOf(e)]) = <<0, 0, 0>>]_vars

\* a session holds two ToolCall records on two agents
C37_Witness ==
    \E sid \in DOMAIN sessions :
        /\ sessions[sid].stats.toolCalls = 2
        /\ \E i, j \in DOMAIN sessions[sid].agents :
              /\ i # j
              /\ sessions[sid].agents[i].toolCallCount = 1
              /\ sessions[sid].agents[j].toolCallCount = 1

(***************************************************************************)
(* C38.  In every reachable state every entry of a session's pending-call  *)
(* map refers to a ToolCall of an agent of that session (the call that the *)
(* lookup of post finds for the entry's id) which has the entry's tool     *)
(* name and status executing; and after every post record the pending-call *)
(* map of its session has no entry for the record's tool name.             *)
(***************************************************************************)
C38_PendingEntriesAreExecuting ==
    [][/\ \A sid \in DOMAIN sessions' :
              \A tool \in DOMAIN sessions'[sid].pendingToolCalls :
                  \A at \in {findPending(sessions'[sid], tool)} :
                      /\ at # <<0, 0>>
                      /\ CallAt(sessions'[sid], at).tool = tool
                      /\ CallAt(sessions'[sid], at).status = "executing"
       /\ "post" \in workload.phases =>
              \A e \in EventsOf("post") :
                  Ingests(e) => e.tool_name \notin DOMAIN sessions'[SidOf(e)].pendingToolCalls]_vars

\* the ToolCalls of session s with status error
ErrorCallsOf(s) == { p \in CallsOf(s) : CallAt(s, p).status = "error" }

(***************************************************************************)
(* C39.  In every reachable state the errors counter of a session equals   *)
(* the number of its ToolCalls with status error (hence it is at most its  *)
(* toolCalls counter); a post adds one to the counter exactly when it      *)
(* marks a ToolCall as error, and a post with no pending call for its tool *)
(* does not add to it, even with a failing response.                       *)
(***************************************************************************)
C39_ErrorsCountErrorCalls ==
    [][/\ \A sid \in DOMAIN sessions' :
              /\ sessions'[sid].stats.errors = Cardinality(ErrorCallsOf(sessions'[sid]))
              /\ sessions'[sid].stats.errors <= sessions'[sid].stats.toolCalls
       /\ "post" \in workload.phases =>
              \A e \in EventsOf("post") :
                  Ingests(e) =>
                      \A s \in {Found(e)}, t \in {sessions'[SidOf(e)]} :
                          /\ t.stats.errors =
                                s.stats.errors + Cardinality(ErrorCallsOf(t) \ ErrorCallsOf(s))
                          /\ e.tool_name \notin DOMAIN s.pendingToolCalls
                                => t.stats.errors = s.stats.errors]_vars

(***************************************************************************)
(* C40.  Sessions are isolated: a record whose session id is A leaves      *)
(* every other session B of the store in the store and unchanged in every  *)
(* field, adds no session but A, and of the state shared by the sessions   *)
(* may change only the agent-id counter, the used-name pool and the        *)
(* carry-over accumulator (configuration and clients stay as they are).    *)
(***************************************************************************)
C40_SessionsAreIsolated ==
    [][\A phase \in workload.phases : \A e \in EventsOf(phase) :
          (DOMAIN sessions \ {SidOf(e)} # {} /\ Ingests(e)) =>
              /\ \A B \in DOMAIN sessions \ {SidOf(e)} :
                    /\ B \in DOMAIN sessions'
                    /\ sessions'[B] = sessions[B]
              /\ DOMAIN sessions' \subseteq DOMAIN sessions \cup {SidOf(e)}
              /\ config' = config
              /\ clients' = clients]_vars

\* a session was ended by its session_end record while another session, with a
\* subagent at work, stayed active
C40_Witness ==
    \E A, B \in DOMAIN sessions :
        /\ A # B
        /\ sessions[A].status = "ended"
        /\ sessions[A].endedAt >= sessions[B].lastActivity
        /\ sessions[B].status = "active"
        /\ \E i \in SubsOf(sessions[B]) : sessions[B].agents[i].status = "active"

====
